---- MODULE Spec2Model ----
(***************************************************************************)
(* Token resolution and caching of the Starknet MCP server: the            *)
(* TokenService (static registry, token cache, symbol index, lazy remote   *)
(* fetch through the avnu SDK, on-chain decimals fallback) and the address *)
(* normalizer it is built on.                                              *)
(*                                                                         *)
(* A string is a TLA+ string; Chars spells every string the model handles  *)
(* as its sequence of characters, and case folding, prefix tests, padding  *)
(* and slicing are computed on the characters, as the code computes them.  *)
(***************************************************************************)
EXTENDS Integers, Sequences, FiniteSets, TLC

\* ------------------------------------------------------------------------
\* Strings
\* ------------------------------------------------------------------------

\* The characters of every string the model handles.
Chars ==
  "" :> <<>> @@
  "ETH" :> <<"E","T","H">> @@
  "Eth" :> <<"E","t","h">> @@
  "eth" :> <<"e","t","h">> @@
  "0XZZ" :> <<"0","X","Z","Z">> @@
  "0xzz" :> <<"0","x","z","z">> @@
  "STRK" :> <<"S","T","R","K">> @@
  "USDC" :> <<"U","S","D","C">> @@
  "USDT" :> <<"U","S","D","T">> @@
  "ZEND" :> <<"Z","E","N","D">> @@
  "strk" :> <<"s","t","r","k">> @@
  "usdc" :> <<"u","s","d","c">> @@
  "usdt" :> <<"u","s","d","t">> @@
  "zend" :> <<"z","e","n","d">> @@
  "0X123" :> <<"0","X","1","2","3">> @@
  "0x123" :> <<"0","x","1","2","3">> @@
  "LORDS" :> <<"L","O","R","D","S">> @@
  "Lords" :> <<"L","o","r","d","s">> @@
  "lords" :> <<"l","o","r","d","s">> @@
  "INVALIDADDRESS" :> <<"I","N","V","A","L","I","D","A","D","D","R","E","S","S">> @@
  "InvalidAddress" :> <<"I","n","v","a","l","i","d","A","d","d","r","e","s","s">> @@
  "invalidaddress" :> <<"i","n","v","a","l","i","d","a","d","d","r","e","s","s">> @@
  "0X00000000...000123" :> <<"0","X","0","0","0","0","0","0","0","0",".",".",".","0","0","0","1","2","3">> @@
  "0X0124AEB4...533B49" :> <<"0","X","0","1","2","4","A","E","B","4",".",".",".","5","3","3","B","4","9">> @@
  "0X04718F5A...7C938D" :> <<"0","X","0","4","7","1","8","F","5","A",".",".",".","7","C","9","3","8","D">> @@
  "0X049D3657...004DC7" :> <<"0","X","0","4","9","D","3","6","5","7",".",".",".","0","0","4","D","C","7">> @@
  "0X053C9125...F368A8" :> <<"0","X","0","5","3","C","9","1","2","5",".",".",".","F","3","6","8","A","8">> @@
  "0X068F5C6A...9C0FB8" :> <<"0","X","0","6","8","F","5","C","6","A",".",".",".","9","C","0","F","B","8">> @@
  "0x00000000...000123" :> <<"0","x","0","0","0","0","0","0","0","0",".",".",".","0","0","0","1","2","3">> @@
  "0x0124aeb4...533b49" :> <<"0","x","0","1","2","4","a","e","b","4",".",".",".","5","3","3","b","4","9">> @@
  "0x04718f5a...7c938d" :> <<"0","x","0","4","7","1","8","f","5","a",".",".",".","7","c","9","3","8","d">> @@
  "0x049d3657...004dc7" :> <<"0","x","0","4","9","d","3","6","5","7",".",".",".","0","0","4","d","c","7">> @@
  "0x053c9125...f368a8" :> <<"0","x","0","5","3","c","9","1","2","5",".",".",".","f","3","6","8","a","8">> @@
  "0x068f5c6a...9c0fb8" :> <<"0","x","0","6","8","f","5","c","6","a",".",".",".","9","c","0","f","b","8">> @@
  "0X124AEB495B947201F5FAC96FD1138E326AD86195B98DF6DEC9009158A533B49" :> <<"0","X","1","2","4","A","E","B","4","9","5","B","9","4","7","2","0","1","F","5","F","A","C","9","6","F","D","1","1","3","8","E","3","2","6","A","D","8","6","1","9","5","B","9","8","D","F","6","D","E","C","9","0","0","9","1","5","8","A","5","3","3","B","4","9">> @@
  "0X49D36570D4E46F48E99674BD3FCC84644DDD6B96F7C741B1562B82F9E004DC7" :> <<"0","X","4","9","D","3","6","5","7","0","D","4","E","4","6","F","4","8","E","9","9","6","7","4","B","D","3","F","C","C","8","4","6","4","4","D","D","D","6","B","9","6","F","7","C","7","4","1","B","1","5","6","2","B","8","2","F","9","E","0","0","4","D","C","7">> @@
  "0x124AEB495b947201f5fac96fd1138e326ad86195b98df6dec9009158a533b49" :> <<"0","x","1","2","4","A","E","B","4","9","5","b","9","4","7","2","0","1","f","5","f","a","c","9","6","f","d","1","1","3","8","e","3","2","6","a","d","8","6","1","9","5","b","9","8","d","f","6","d","e","c","9","0","0","9","1","5","8","a","5","3","3","b","4","9">> @@
  "0x124aeb495b947201f5fac96fd1138e326ad86195b98df6dec9009158a533b49" :> <<"0","x","1","2","4","a","e","b","4","9","5","b","9","4","7","2","0","1","f","5","f","a","c","9","6","f","d","1","1","3","8","e","3","2","6","a","d","8","6","1","9","5","b","9","8","d","f","6","d","e","c","9","0","0","9","1","5","8","a","5","3","3","b","4","9">> @@
  "0x49D36570D4E46F48E99674BD3FCC84644DDD6B96F7C741B1562B82F9E004DC7" :> <<"0","x","4","9","D","3","6","5","7","0","D","4","E","4","6","F","4","8","E","9","9","6","7","4","B","D","3","F","C","C","8","4","6","4","4","D","D","D","6","B","9","6","F","7","C","7","4","1","B","1","5","6","2","B","8","2","F","9","E","0","0","4","D","C","7">> @@
  "0x49d36570d4e46f48e99674bd3fcc84644ddd6b96f7c741b1562b82f9e004dc7" :> <<"0","x","4","9","d","3","6","5","7","0","d","4","e","4","6","f","4","8","e","9","9","6","7","4","b","d","3","f","c","c","8","4","6","4","4","d","d","d","6","b","9","6","f","7","c","7","4","1","b","1","5","6","2","b","8","2","f","9","e","0","0","4","d","c","7">> @@
  "0X0000000000000000000000000000000000000000000000000000000000000123" :> <<"0","X","0","0","0","0","0","0","0","0","0","0","0","0","0","0","0","0","0","0","0","0","0","0","0","0","0","0","0","0","0","0","0","0","0","0","0","0","0","0","0","0","0","0","0","0","0","0","0","0","0","0","0","0","0","0","0","0","0","0","0","0","0","1","2","3">> @@
  "0X0124AEB495B947201F5FAC96FD1138E326AD86195B98DF6DEC9009158A533B49" :> <<"0","X","0","1","2","4","A","E","B","4","9","5","B","9","4","7","2","0","1","F","5","F","A","C","9","6","F","D","1","1","3","8","E","3","2","6","A","D","8","6","1","9","5","B","9","8","D","F","6","D","E","C","9","0","0","9","1","5","8","A","5","3","3","B","4","9">> @@
  "0X04718F5A0FC34CC1AF16A1CDEE98FFB20C31F5CD61D6AB07201858F4287C938D" :> <<"0","X","0","4","7","1","8","F","5","A","0","F","C","3","4","C","C","1","A","F","1","6","A","1","C","D","E","E","9","8","F","F","B","2","0","C","3","1","F","5","C","D","6","1","D","6","A","B","0","7","2","0","1","8","5","8","F","4","2","8","7","C","9","3","8","D">> @@
  "0X049D36570D4E46F48E99674BD3FCC84644DDD6B96F7C741B1562B82F9E004DC7" :> <<"0","X","0","4","9","D","3","6","5","7","0","D","4","E","4","6","F","4","8","E","9","9","6","7","4","B","D","3","F","C","C","8","4","6","4","4","D","D","D","6","B","9","6","F","7","C","7","4","1","B","1","5","6","2","B","8","2","F","9","E","0","0","4","D","C","7">> @@
  "0X053C91253BC9682C04929CA02ED00B3E423F6710D2EE7E0D5EBB06F3ECF368A8" :> <<"0","X","0","5","3","C","9","1","2","5","3","B","C","9","6","8","2","C","0","4","9","2","9","C","A","0","2","E","D","0","0","B","3","E","4","2","3","F","6","7","1","0","D","2","E","E","7","E","0","D","5","E","B","B","0","6","F","3","E","C","F","3","6","8","A","8">> @@
  "0X068F5C6A61780768455DE69077E07E89787839BF8166DECFBF92B645209C0FB8" :> <<"0","X","0","6","8","F","5","C","6","A","6","1","7","8","0","7","6","8","4","5","5","D","E","6","9","0","7","7","E","0","7","E","8","9","7","8","7","8","3","9","B","F","8","1","6","6","D","E","C","F","B","F","9","2","B","6","4","5","2","0","9","C","0","F","B","8">> @@
  "0X0800000000000000000000000000000000000000000000000000000000000000" :> <<"0","X","0","8","0","0","0","0","0","0","0","0","0","0","0","0","0","0","0","0","0","0","0","0","0","0","0","0","0","0","0","0","0","0","0","0","0","0","0","0","0","0","0","0","0","0","0","0","0","0","0","0","0","0","0","0","0","0","0","0","0","0","0","0","0","0">> @@
  "0x0000000000000000000000000000000000000000000000000000000000000123" :> <<"0","x","0","0","0","0","0","0","0","0","0","0","0","0","0","0","0","0","0","0","0","0","0","0","0","0","0","0","0","0","0","0","0","0","0","0","0","0","0","0","0","0","0","0","0","0","0","0","0","0","0","0","0","0","0","0","0","0","0","0","0","0","0","1","2","3">> @@
  "0x0124aeb495b947201f5fac96fd1138e326ad86195b98df6dec9009158a533b49" :> <<"0","x","0","1","2","4","a","e","b","4","9","5","b","9","4","7","2","0","1","f","5","f","a","c","9","6","f","d","1","1","3","8","e","3","2","6","a","d","8","6","1","9","5","b","9","8","d","f","6","d","e","c","9","0","0","9","1","5","8","a","5","3","3","b","4","9">> @@
  "0x04718f5a0fc34cc1af16a1cdee98ffb20c31f5cd61d6ab07201858f4287c938d" :> <<"0","x","0","4","7","1","8","f","5","a","0","f","c","3","4","c","c","1","a","f","1","6","a","1","c","d","e","e","9","8","f","f","b","2","0","c","3","1","f","5","c","d","6","1","d","6","a","b","0","7","2","0","1","8","5","8","f","4","2","8","7","c","9","3","8","d">> @@
  "0x049d36570d4e46f48e99674bd3fcc84644ddd6b96f7c741b1562b82f9e004dc7" :> <<"0","x","0","4","9","d","3","6","5","7","0","d","4","e","4","6","f","4","8","e","9","9","6","7","4","b","d","3","f","c","c","8","4","6","4","4","d","d","d","6","b","9","6","f","7","c","7","4","1","b","1","5","6","2","b","8","2","f","9","e","0","0","4","d","c","7">> @@
  "0x053c91253bc9682c04929ca02ed00b3e423f6710d2ee7e0d5ebb06f3ecf368a8" :> <<"0","x","0","5","3","c","9","1","2","5","3","b","c","9","6","8","2","c","0","4","9","2","9","c","a","0","2","e","d","0","0","b","3","e","4","2","3","f","6","7","1","0","d","2","e","e","7","e","0","d","5","e","b","b","0","6","f","3","e","c","f","3","6","8","a","8">> @@
  "0x068f5c6a61780768455de69077e07e89787839bf8166decfbf92b645209c0fb8" :> <<"0","x","0","6","8","f","5","c","6","a","6","1","7","8","0","7","6","8","4","5","5","d","e","6","9","0","7","7","e","0","7","e","8","9","7","8","7","8","3","9","b","f","8","1","6","6","d","e","c","f","b","f","9","2","b","6","4","5","2","0","9","c","0","f","b","8">> @@
  "0x0800000000000000000000000000000000000000000000000000000000000000" :> <<"0","x","0","8","0","0","0","0","0","0","0","0","0","0","0","0","0","0","0","0","0","0","0","0","0","0","0","0","0","0","0","0","0","0","0","0","0","0","0","0","0","0","0","0","0","0","0","0","0","0","0","0","0","0","0","0","0","0","0","0","0","0","0","0","0","0">> @@
  "0X10000000000000000000000000000000000000000000000000000000000000000" :> <<"0","X","1","0","0","0","0","0","0","0","0","0","0","0","0","0","0","0","0","0","0","0","0","0","0","0","0","0","0","0","0","0","0","0","0","0","0","0","0","0","0","0","0","0","0","0","0","0","0","0","0","0","0","0","0","0","0","0","0","0","0","0","0","0","0","0","0">> @@
  "0x10000000000000000000000000000000000000000000000000000000000000000" :> <<"0","x","1","0","0","0","0","0","0","0","0","0","0","0","0","0","0","0","0","0","0","0","0","0","0","0","0","0","0","0","0","0","0","0","0","0","0","0","0","0","0","0","0","0","0","0","0","0","0","0","0","0","0","0","0","0","0","0","0","0","0","0","0","0","0","0","0">>

Strings == DOMAIN Chars

\* The string that cs spells.
Str(cs) == CHOOSE s \in Strings : Chars[s] = cs

LowerLetters == <<"a","b","c","d","e","f","g","h","i","j","k","l","m","n","o","p","q","r","s","t","u","v","w","x","y","z">>

UpperLetters == <<"A","B","C","D","E","F","G","H","I","J","K","L","M","N","O","P","Q","R","S","T","U","V","W","X","Y","Z">>

HexLower == <<"0","1","2","3","4","5","6","7","8","9","a","b","c","d","e","f">>

HexDigits == {"0","1","2","3","4","5","6","7","8","9","a","b","c","d","e","f","A","B","C","D","E","F"}

LetterIndex(letters, c) == CHOOSE k \in 1..Len(letters) : letters[k] = c

\* The uppercase form of each lowercase letter, and the converse.
UpperCaseOf ==
  [c \in {LowerLetters[k] : k \in 1..Len(LowerLetters)} |-> UpperLetters[LetterIndex(LowerLetters, c)]]

LowerCaseOf ==
  [c \in {UpperLetters[k] : k \in 1..Len(UpperLetters)} |-> LowerLetters[LetterIndex(UpperLetters, c)]]

upperChars(cs) ==
  [i \in 1..Len(cs) |-> IF cs[i] \in DOMAIN UpperCaseOf THEN UpperCaseOf[cs[i]] ELSE cs[i]]

lowerChars(cs) ==
  [i \in 1..Len(cs) |-> IF cs[i] \in DOMAIN LowerCaseOf THEN LowerCaseOf[cs[i]] ELSE cs[i]]

\* toUpperCase and toLowerCase of every string, computed once.
UpperCased == [s \in Strings |-> Str(upperChars(Chars[s]))]

LowerCased == [s \in Strings |-> Str(lowerChars(Chars[s]))]

\* String.prototype.toUpperCase
toUpperCase(s) == UpperCased[s]

\* String.prototype.toLowerCase
toLowerCase(s) == LowerCased[s]

\* s.startsWith("0x"): the prefix test is case-sensitive.
startsWith0x(s) == Len(Chars[s]) >= 2 /\ Chars[s][1] = "0" /\ Chars[s][2] = "x"

\* ------------------------------------------------------------------------
\* Address normalizer (normalizeAddress over starknet.js
\* validateAndParseAddress)
\* ------------------------------------------------------------------------

\* Width of a normalized address: 0x + 64 hex characters.
ADDRESS_HEX_LENGTH == 64

\* What a failed normalization gives: the call throws.
InvalidAddress == "InvalidAddress"

\* Upper bound (exclusive) of the address range, 2^251 - 256, as 64 hex digits.
ADDR_BOUND_HEX ==
  <<"0", "7">> \o [i \in 1..(ADDRESS_HEX_LENGTH - 4) |-> "f"] \o <<"0", "0">>

\* removeHexPrefix: strips a leading 0x or 0X.
removeHexPrefix(cs) ==
  IF Len(cs) >= 2 /\ cs[1] = "0" /\ cs[2] \in {"x", "X"} THEN SubSeq(cs, 3, Len(cs)) ELSE cs

\* Number of leading "0" characters of cs.
RECURSIVE leadingZeros(_)
leadingZeros(cs) ==
  IF cs = <<>> \/ Head(cs) # "0" THEN 0 ELSE 1 + leadingZeros(Tail(cs))

\* BigInt(...).toString(16): the minimal lowercase hex numeral.
toHexDigits(body) ==
  LET z == leadingZeros(body)
  IN  IF z = Len(body) THEN <<"0">> ELSE lowerChars(SubSeq(body, z + 1, Len(body)))

\* padStart(width, "0")
padStart(cs, width) ==
  IF Len(cs) >= width THEN cs ELSE [i \in 1..(width - Len(cs)) |-> "0"] \o cs

HexValue(c) == CHOOSE v \in 0..15 : HexLower[v + 1] = c

\* a < b for two lowercase hex numerals of the same length.
RECURSIVE HexLess(_, _)
HexLess(a, b) ==
  IF a = <<>> THEN FALSE
  ELSE IF HexValue(Head(a)) # HexValue(Head(b)) THEN HexValue(Head(a)) < HexValue(Head(b))
  ELSE HexLess(Tail(a), Tail(b))

\* validateAndParseAddress without the range assertion.
validateAndParseAddressUnbounded(address) ==
  LET body == removeHexPrefix(Chars[address])
  IN  IF body = <<>> \/ \E i \in 1..Len(body) : body[i] \notin HexDigits
      THEN InvalidAddress
      ELSE LET hex == toHexDigits(body)
           IN  IF Len(hex) > ADDRESS_HEX_LENGTH
               THEN InvalidAddress
               ELSE Str(<<"0", "x">> \o padStart(hex, ADDRESS_HEX_LENGTH))

\* starknet.js validateAndParseAddress: the padded address, InvalidAddress
\* when it throws.
validateAndParseAddress(address) ==
  LET body == removeHexPrefix(Chars[address])
  IN  IF body = <<>> \/ \E i \in 1..Len(body) : body[i] \notin HexDigits
      THEN InvalidAddress
      ELSE LET hex == toHexDigits(body)
           IN  IF Len(hex) > ADDRESS_HEX_LENGTH
               THEN InvalidAddress
               ELSE IF ~HexLess(padStart(hex, ADDRESS_HEX_LENGTH), ADDR_BOUND_HEX)
               THEN InvalidAddress
               ELSE Str(<<"0", "x">> \o padStart(hex, ADDRESS_HEX_LENGTH))

\* normalizeAddress of every string, computed once.
NormalizedAddress ==
  [s \in Strings |->
     IF validateAndParseAddress(s) = InvalidAddress THEN InvalidAddress
     ELSE toLowerCase(validateAndParseAddress(s))]

\* validateAndParseAddress(address).toLowerCase(); InvalidAddress when it throws.
normalizeAddress(address) == NormalizedAddress[address]

\* ------------------------------------------------------------------------
\* Static token registry
\* ------------------------------------------------------------------------

ETH_ADDRESS == "0x049d36570d4e46f48e99674bd3fcc84644ddd6b96f7c741b1562b82f9e004dc7"

STRK_ADDRESS == "0x04718f5a0fc34cc1af16a1cdee98ffb20c31f5cd61d6ab07201858f4287c938d"

USDC_ADDRESS == "0x053c91253bc9682c04929ca02ed00b3e423f6710d2ee7e0d5ebb06f3ecf368a8"

USDT_ADDRESS == "0x068f5c6a61780768455de69077e07e89787839bf8166decfbf92b645209c0fb8"

\* Core token data - only the fields that differ per token.
STATIC_TOKEN_DATA ==
  << [address |-> ETH_ADDRESS,  symbol |-> "ETH",  name |-> "Ether",          decimals |-> 18],
     [address |-> STRK_ADDRESS, symbol |-> "STRK", name |-> "Starknet Token", decimals |-> 18],
     [address |-> USDC_ADDRESS, symbol |-> "USDC", name |-> "USD Coin",       decimals |-> 6],
     [address |-> USDT_ADDRESS, symbol |-> "USDT", name |-> "Tether USD",     decimals |-> 6] >>

\* Static token defaults - shared by all static tokens.
STATIC_TOKEN_DEFAULTS ==
  [logoUri |-> "null", lastDailyVolumeUsd |-> 0, tags |-> <<"Verified">>,
   extensions |-> <<>>, isStatic |-> TRUE, lastUpdated |-> 0]

\* STATIC_TOKEN_DATA.map(token => ({...STATIC_TOKEN_DEFAULTS, ...token}))
STATIC_TOKENS ==
  [i \in 1..Len(STATIC_TOKEN_DATA) |-> STATIC_TOKEN_DATA[i] @@ STATIC_TOKEN_DEFAULTS]

\* Dynamic-record expiry, 24 hours in milliseconds.
TOKEN_TTL_MS == 86400000

\* ------------------------------------------------------------------------
\* Bounds of the model
\* ------------------------------------------------------------------------

\* Number of asynchronous operations started in one behaviour.
MaxCalls == 2

\* Number of clock advances in one behaviour.
MaxTicks == 1

\* Logical tasks that may be suspended on a collaborator at the same time;
\* a task is named by its number.
Tasks == {1, 2}

\* Clock advances: exactly one TTL, or one millisecond more.
TickSteps == {TOKEN_TTL_MS, TOKEN_TTL_MS + 1}

\* ------------------------------------------------------------------------
\* Inputs: what callers pass and what the collaborators answer
\* ------------------------------------------------------------------------

\* The address of a token that is not in the registry.
LORDS_ADDRESS == "0x0124aeb495b947201f5fac96fd1138e326ad86195b98df6dec9009158a533b49"

\* The same address without its leading zero and partly in upper case.
LORDS_SHORT == "0x124AEB495b947201f5fac96fd1138e326ad86195b98df6dec9009158a533b49"

\* ETH's address without its leading zero and in upper case.
ETH_SHORT == "0x49D36570D4E46F48E99674BD3FCC84644DDD6B96F7C741B1562B82F9E004DC7"

\* A short address.
ADDR_123 == "0x123"

\* A 0x-prefixed string that is no hexadecimal numeral.
MALFORMED == "0xzz"

\* 2^251, the first value past the address range, in 64 hex digits.
OVER_RANGE == "0x0800000000000000000000000000000000000000000000000000000000000000"

\* A numeral of 65 significant hex digits.
OVER_WIDTH == "0x10000000000000000000000000000000000000000000000000000000000000000"

\* Address strings callers pass.
AddressInputs == {ETH_SHORT, LORDS_ADDRESS, MALFORMED}

\* Symbol strings callers pass.
SymbolInputs == {"eth", "LORDS"}

\* Strings callers pass to resolveSymbolAsync.
ResolveInputs == {"eth", "LORDS", ETH_SHORT, MALFORMED}

\* What a remote response may say: <<address, symbol, decimals, isStatic>>.
\* The address is well-formed but not always normalized, and need not be the
\* one asked for; isStatic is an extra field a response may carry.
RemoteAnswers ==
  { <<ETH_ADDRESS, "eth", 8, TRUE>>,       \* claims a static address
    <<LORDS_SHORT, "lords", 18, FALSE>>,
    <<LORDS_SHORT, "eth", 8, TRUE>>,       \* claims a static symbol
    <<LORDS_SHORT, ETH_SHORT, 18, FALSE>>,  \* an address-shaped symbol
    <<ADDR_123, "lords", 8, TRUE>> }       \* a second address for one symbol

\* Messages of the errors the remote source fails with.
RemoteErrors == {"avnu unavailable", "Not found"}

\* Answers of the on-chain decimals() call.
OnChainDecimals == {6, 18}

\* A Token as the avnu SDK returns it, possibly with extra fields named like
\* those of a CachedToken.
RemoteTokens ==
  { [address |-> r[1], symbol |-> r[2], name |-> "Remote Token", decimals |-> r[3],
     logoUri |-> "https://example.com/logo.png", lastDailyVolumeUsd |-> 50000,
     tags |-> <<"Verified">>, extensions |-> <<>>, isStatic |-> r[4], lastUpdated |-> 0]
    : r \in RemoteAnswers }

\* ------------------------------------------------------------------------
\* Results of operations
\* ------------------------------------------------------------------------

Ok(v) == <<"ok", v>>

Undefined == <<"undefined">>

Throw(kind, subject) == <<"throw", kind, subject>>

\* The error getTokenByAddress and getTokenBySymbol throw when the remote call
\* fails: its message holds the address or symbol asked for and the message of
\* the underlying error.
RemoteFetchFailed(subject, msg) == <<"throw", "RemoteFetchFailed", subject, msg>>

Pending == <<"pending">>

IsOk(r) == r[1] = "ok"

IsThrow(r) == r[1] = "throw"

\* ------------------------------------------------------------------------
\* State
\* ------------------------------------------------------------------------

VARIABLES
  cache,        \* Map<string, CachedToken>: token cache by normalized address
  symbolIndex,  \* Map<string, string>: uppercased symbol -> address
  provider,     \* TRUE when an RpcProvider has been set
  now,          \* Date.now()
  tasks,        \* the suspended asynchronous operation of each logical task
  returned,     \* the asynchronous operation that completed last
  calls,        \* asynchronous operations started so far
  ticks,        \* clock advances so far
  service,      \* the module-level TokenService singleton of services/index
  tool          \* the server request being handled

vars == <<cache, symbolIndex, provider, now, tasks, returned, calls, ticks, service, tool>>

\* Map.prototype.set
MapSet(m, k, v) == [x \in (DOMAIN m) \cup {k} |-> IF x = k THEN v ELSE m[x]]

\* Map.prototype.has
MapHas(m, k) == k \in DOMAIN m

EmptyMap == [x \in {} |-> x]

\* ------------------------------------------------------------------------
\* TokenService: helpers
\* ------------------------------------------------------------------------

\* isExpired that counts a record as expired from the very end of its TTL.
isExpiredAtTtl(token) ==
  IF token.isStatic THEN FALSE ELSE now - token.lastUpdated >= TOKEN_TTL_MS

\* isExpired under which no record ever expires.
isExpiredNever(token) == FALSE

\* Check if a cached token has expired. Static tokens never expire.
isExpired(token) ==
  IF token.isStatic THEN FALSE ELSE now - token.lastUpdated > TOKEN_TTL_MS

\* toCachedToken that lets the fields of the response win over its own.
toCachedTokenKeepsResponseFields(token, isStatic) ==
  [token EXCEPT !.address = normalizeAddress(token.address)]

\* Convert an avnu Token to a CachedToken.
toCachedToken(token, isStatic) ==
  [token EXCEPT !.address = normalizeAddress(token.address),
                !.isStatic = isStatic,
                !.lastUpdated = now]

\* Load static tokens into cache: the maps after the first n registry entries.
RECURSIVE loadStaticTokens(_)
loadStaticTokens(n) ==
  IF n = 0 THEN [cache |-> EmptyMap, symbolIndex |-> EmptyMap]
  ELSE LET prev == loadStaticTokens(n - 1)
           token == STATIC_TOKENS[n]
           normalized == normalizeAddress(token.address)
       IN  [cache |-> MapSet(prev.cache, normalized, [token EXCEPT !.address = normalized]),
            symbolIndex |-> MapSet(prev.symbolIndex, toUpperCase(token.symbol), normalized)]

\* addToCache without the check for an existing static record.
addToCacheOverwritesStatic(token, isStatic) ==
  LET normalized == normalizeAddress(token.address)
      cached == [toCachedToken(token, isStatic) EXCEPT !.address = normalized]
      newCache == MapSet(cache, normalized, cached)
      upperSymbol == toUpperCase(token.symbol)
      takenByStatic ==
        /\ MapHas(symbolIndex, upperSymbol)
        /\ MapHas(newCache, symbolIndex[upperSymbol])
        /\ newCache[symbolIndex[upperSymbol]].isStatic
  IN  [cache |-> newCache,
       symbolIndex |-> IF takenByStatic THEN symbolIndex
                       ELSE MapSet(symbolIndex, upperSymbol, normalized),
       ret |-> cached]

\* addToCache that indexes the symbol whoever holds it.
addToCacheAlwaysIndexes(token, isStatic) ==
  LET normalized == normalizeAddress(token.address)
  IN  IF MapHas(cache, normalized) /\ cache[normalized].isStatic
      THEN [cache |-> cache, symbolIndex |-> symbolIndex, ret |-> cache[normalized]]
      ELSE LET cached == [toCachedToken(token, isStatic) EXCEPT !.address = normalized]
           IN  [cache |-> MapSet(cache, normalized, cached),
                symbolIndex |-> MapSet(symbolIndex, toUpperCase(token.symbol), normalized),
                ret |-> cached]

\* addToCache that returns the converted response when a static record holds
\* the address.
addToCacheReturnsResponse(token, isStatic) ==
  LET normalized == normalizeAddress(token.address)
      cached == [toCachedToken(token, isStatic) EXCEPT !.address = normalized]
  IN  IF MapHas(cache, normalized) /\ cache[normalized].isStatic
      THEN [cache |-> cache, symbolIndex |-> symbolIndex, ret |-> cached]
      ELSE LET newCache == MapSet(cache, normalized, cached)
               upperSymbol == toUpperCase(token.symbol)
               takenByStatic ==
                 /\ MapHas(symbolIndex, upperSymbol)
                 /\ MapHas(newCache, symbolIndex[upperSymbol])
                 /\ newCache[symbolIndex[upperSymbol]].isStatic
           IN  [cache |-> newCache,
                symbolIndex |-> IF takenByStatic THEN symbolIndex
                                ELSE MapSet(symbolIndex, upperSymbol, normalized),
                ret |-> cached]

\* addToCache that drops the index entry of the symbol the address had before.
addToCacheUnindexesPrevious(token, isStatic) ==
  LET normalized == normalizeAddress(token.address)
  IN  IF MapHas(cache, normalized) /\ cache[normalized].isStatic
      THEN [cache |-> cache, symbolIndex |-> symbolIndex, ret |-> cache[normalized]]
      ELSE LET cached == [toCachedToken(token, isStatic) EXCEPT !.address = normalized]
               newCache == MapSet(cache, normalized, cached)
               upperSymbol == toUpperCase(token.symbol)
               stale == IF MapHas(cache, normalized)
                        THEN {s \in DOMAIN symbolIndex :
                                /\ s = toUpperCase(cache[normalized].symbol)
                                /\ symbolIndex[s] = normalized}
                        ELSE {}
               pruned == [s \in DOMAIN symbolIndex \ stale |-> symbolIndex[s]]
               takenByStatic ==
                 /\ MapHas(pruned, upperSymbol)
                 /\ MapHas(newCache, pruned[upperSymbol])
                 /\ newCache[pruned[upperSymbol]].isStatic
           IN  [cache |-> newCache,
                symbolIndex |-> IF takenByStatic THEN pruned
                                ELSE MapSet(pruned, upperSymbol, normalized),
                ret |-> cached]

\* addToCache that keeps the decimals of the record it replaces.
addToCacheMergesExisting(token, isStatic) ==
  LET normalized == normalizeAddress(token.address)
  IN  IF MapHas(cache, normalized) /\ cache[normalized].isStatic
      THEN [cache |-> cache, symbolIndex |-> symbolIndex, ret |-> cache[normalized]]
      ELSE LET fresh == [toCachedToken(token, isStatic) EXCEPT !.address = normalized]
               cached == IF MapHas(cache, normalized)
                         THEN [fresh EXCEPT !.decimals = cache[normalized].decimals]
                         ELSE fresh
               newCache == MapSet(cache, normalized, cached)
               upperSymbol == toUpperCase(token.symbol)
               takenByStatic ==
                 /\ MapHas(symbolIndex, upperSymbol)
                 /\ MapHas(newCache, symbolIndex[upperSymbol])
                 /\ newCache[symbolIndex[upperSymbol]].isStatic
           IN  [cache |-> newCache,
                symbolIndex |-> IF takenByStatic THEN symbolIndex
                                ELSE MapSet(symbolIndex, upperSymbol, normalized),
                ret |-> cached]

\* Add a token to cache. Never overwrites static tokens.
\* Gives the maps after the call and the record returned.
addToCache(token, isStatic) ==
  LET normalized == normalizeAddress(token.address)
  IN  IF MapHas(cache, normalized) /\ cache[normalized].isStatic
      THEN [cache |-> cache, symbolIndex |-> symbolIndex, ret |-> cache[normalized]]
      ELSE LET cached == [toCachedToken(token, isStatic) EXCEPT !.address = normalized]
               newCache == MapSet(cache, normalized, cached)
               upperSymbol == toUpperCase(token.symbol)
               takenByStatic ==
                 /\ MapHas(symbolIndex, upperSymbol)
                 /\ MapHas(newCache, symbolIndex[upperSymbol])
                 /\ newCache[symbolIndex[upperSymbol]].isStatic
           IN  [cache |-> newCache,
                symbolIndex |-> IF takenByStatic THEN symbolIndex
                                ELSE MapSet(symbolIndex, upperSymbol, normalized),
                ret |-> cached]

\* cacheOnChainDecimals without the check for an existing entry.
cacheOnChainDecimalsOverwrites(address, decimals) ==
  LET normalized == normalizeAddress(address)
      chars == Chars[normalized]
      shortAddr == Str(SubSeq(chars, 1, 10) \o <<".", ".", ".">>
                       \o SubSeq(chars, Len(chars) - 5, Len(chars)))
  IN  MapSet(cache, normalized,
             [address |-> normalized, symbol |-> shortAddr, name |-> "Unknown Token",
              decimals |-> decimals, logoUri |-> "null", lastDailyVolumeUsd |-> 0,
              tags |-> <<>>, extensions |-> <<>>, isStatic |-> FALSE,
              lastUpdated |-> now])

\* cacheOnChainDecimals that caches nothing.
cacheOnChainDecimalsSkips(address, decimals) == cache

\* Cache decimals fetched from on-chain call: the cache after the call.
cacheOnChainDecimals(address, decimals) ==
  LET normalized == normalizeAddress(address)
      chars == Chars[normalized]
      shortAddr == Str(SubSeq(chars, 1, 10) \o <<".", ".", ".">>
                       \o SubSeq(chars, Len(chars) - 5, Len(chars)))
  IN  IF MapHas(cache, normalized) THEN cache
      ELSE MapSet(cache, normalized,
                  [address |-> normalized, symbol |-> shortAddr, name |-> "Unknown Token",
                   decimals |-> decimals, logoUri |-> "null", lastDailyVolumeUsd |-> 0,
                   tags |-> <<>>, extensions |-> <<>>, isStatic |-> FALSE,
                   lastUpdated |-> now])

\* ------------------------------------------------------------------------
\* TokenService: synchronous methods (cache only)
\* ------------------------------------------------------------------------

\* resolveSymbol that takes a 0x-prefixed input for an address before it looks
\* at the symbol index.
resolveSymbolAddressFirst(symbolOrAddress) ==
  LET upper == toUpperCase(symbolOrAddress)
  IN  IF startsWith0x(symbolOrAddress)
      THEN IF normalizeAddress(symbolOrAddress) = InvalidAddress
           THEN Throw("InvalidAddress", symbolOrAddress)
           ELSE Ok(normalizeAddress(symbolOrAddress))
      ELSE IF MapHas(symbolIndex, upper) THEN Ok(symbolIndex[upper])
      ELSE Throw("UnknownToken", symbolOrAddress)

resolveSymbol(symbolOrAddress) ==
  LET upper == toUpperCase(symbolOrAddress)
  IN  IF MapHas(symbolIndex, upper) THEN Ok(symbolIndex[upper])
      ELSE IF startsWith0x(symbolOrAddress)
      THEN IF normalizeAddress(symbolOrAddress) = InvalidAddress
           THEN Throw("InvalidAddress", symbolOrAddress)
           ELSE Ok(normalizeAddress(symbolOrAddress))
      ELSE Throw("UnknownToken", symbolOrAddress)

getDecimals(address) ==
  LET normalized == normalizeAddress(address)
  IN  IF normalized = InvalidAddress THEN Throw("InvalidAddress", address)
      ELSE IF ~MapHas(cache, normalized) \/ isExpired(cache[normalized]) THEN Undefined
      ELSE Ok(cache[normalized].decimals)

getTokenInfo(addressOrSymbol) ==
  IF startsWith0x(addressOrSymbol)
  THEN LET normalized == normalizeAddress(addressOrSymbol)
       IN  IF normalized = InvalidAddress THEN Throw("InvalidAddress", addressOrSymbol)
           ELSE IF ~MapHas(cache, normalized) \/ isExpired(cache[normalized]) THEN Undefined
           ELSE Ok(cache[normalized])
  ELSE IF ~MapHas(symbolIndex, toUpperCase(addressOrSymbol)) THEN Undefined
  ELSE LET normalized == symbolIndex[toUpperCase(addressOrSymbol)]
       IN  IF ~MapHas(cache, normalized) \/ isExpired(cache[normalized]) THEN Undefined
           ELSE Ok(cache[normalized])

getCacheSize == Cardinality(DOMAIN cache)

getAllCached == {cache[a] : a \in DOMAIN cache}

\* ------------------------------------------------------------------------
\* TokenService: asynchronous methods
\* ------------------------------------------------------------------------

\* A task with no operation started yet.
IdleTask == [op |-> "none", arg |-> "", pc |-> "idle", result |-> Pending, trace |-> <<>>]

\* The operation of a task has returned or thrown.
Done(op, arg, result, trace) ==
  [op |-> op, arg |-> arg, pc |-> "done", result |-> result, trace |-> trace]

\* The operation of a task is suspended on a collaborator call.
Await(op, arg, pc, trace) ==
  [op |-> op, arg |-> arg, pc |-> pc, result |-> Pending, trace |-> trace]

\* A caller may start an operation on the first task that is not suspended.
CanStart(t) ==
  /\ tasks[t].pc = "idle"
  /\ \A u \in Tasks : u < t => tasks[u].pc # "idle"
  /\ calls < MaxCalls

\* The task moves on: it stays suspended, or its operation completes and the
\* caller gets the result.
Advance(t, next) ==
  /\ tasks' = [tasks EXCEPT ![t] = IF next.pc = "done" THEN IdleTask ELSE next]
  /\ returned' = IF next.pc = "done"
                 THEN [seq |-> returned.seq + 1, task |-> t, op |-> next.op, arg |-> next.arg,
                       result |-> next.result, trace |-> next.trace]
                 ELSE returned

\* getTokenByAddress up to its await: the cached record, or the remote fetch.
getTokenByAddressBegin(op, address) ==
  LET normalized == normalizeAddress(address)
  IN  IF normalized = InvalidAddress
      THEN Done(op, address, Throw("InvalidAddress", address), <<>>)
      ELSE IF MapHas(cache, normalized) /\ ~isExpired(cache[normalized])
      THEN Done(op, address,
                IF op = "getDecimalsAsync" THEN Ok(cache[normalized].decimals)
                ELSE Ok(cache[normalized]), <<>>)
      ELSE Await(op, address, "fetchTokenByAddress", <<"fetchTokenByAddress">>)

\* getTokenBySymbol that refreshes an indexed record through the by-address
\* endpoint.
getTokenBySymbolRefreshesByAddress(op, symbol) ==
  LET upper == toUpperCase(symbol)
  IN  IF /\ MapHas(symbolIndex, upper)
         /\ MapHas(cache, symbolIndex[upper])
      THEN IF ~isExpired(cache[symbolIndex[upper]])
           THEN Done(op, symbol,
                     IF op = "resolveSymbolAsync" THEN Ok(cache[symbolIndex[upper]].address)
                     ELSE Ok(cache[symbolIndex[upper]]), <<>>)
           ELSE Await(op, symbol, "fetchTokenByAddress", <<"fetchTokenByAddress">>)
      ELSE Await(op, symbol, "fetchVerifiedTokenBySymbol", <<"fetchVerifiedTokenBySymbol">>)

\* getTokenBySymbol up to its await: the cached record, or the remote fetch.
getTokenBySymbolBegin(op, symbol) ==
  LET upper == toUpperCase(symbol)
  IN  IF /\ MapHas(symbolIndex, upper)
         /\ MapHas(cache, symbolIndex[upper])
         /\ ~isExpired(cache[symbolIndex[upper]])
      THEN Done(op, symbol,
                IF op = "resolveSymbolAsync" THEN Ok(cache[symbolIndex[upper]].address)
                ELSE Ok(cache[symbolIndex[upper]]), <<>>)
      ELSE Await(op, symbol, "fetchVerifiedTokenBySymbol", <<"fetchVerifiedTokenBySymbol">>)

\* The catch block of getDecimalsAsync without its check for a provider.
getTokenByAddressFailedIgnoresProvider(task, msg) ==
  LET trace == Append(task.trace, "rejected")
  IN  IF task.op = "getDecimalsAsync"
      THEN Await(task.op, task.arg, "decimals", Append(trace, "decimals"))
      ELSE Done(task.op, task.arg, RemoteFetchFailed(task.arg, msg), trace)

\* The catch blocks with an error that leaves the underlying message out.
getTokenByAddressFailedDropsCause(task, msg) ==
  LET trace == Append(task.trace, "rejected")
  IN  IF task.op = "getDecimalsAsync"
      THEN IF ~provider
           THEN Done(task.op, task.arg, Throw("NoProviderConfigured", task.arg), trace)
           ELSE Await(task.op, task.arg, "decimals", Append(trace, "decimals"))
      ELSE Done(task.op, task.arg, RemoteFetchFailed(task.arg, ""), trace)

\* The catch block of getTokenByAddress, and for getDecimalsAsync the catch
\* block around it: the on-chain fallback, if a provider is set.
getTokenByAddressFailed(task, msg) ==
  LET trace == Append(task.trace, "rejected")
  IN  IF task.op = "getDecimalsAsync"
      THEN IF ~provider
           THEN Done(task.op, task.arg, Throw("NoProviderConfigured", task.arg), trace)
           ELSE Await(task.op, task.arg, "decimals", Append(trace, "decimals"))
      ELSE Done(task.op, task.arg, RemoteFetchFailed(task.arg, msg), trace)

\* async getTokenByAddress(address)
getTokenByAddress(t, address) ==
  /\ CanStart(t)
  /\ Advance(t, getTokenByAddressBegin("getTokenByAddress", address))
  /\ calls' = calls + 1
  /\ UNCHANGED <<cache, symbolIndex, provider, now, ticks, service, tool>>

\* async getTokenBySymbol(symbol)
getTokenBySymbol(t, symbol) ==
  /\ CanStart(t)
  /\ Advance(t, getTokenBySymbolBegin("getTokenBySymbol", symbol))
  /\ calls' = calls + 1
  /\ UNCHANGED <<cache, symbolIndex, provider, now, ticks, service, tool>>

\* resolveSymbolAsync that asks the remote source for every unresolved input,
\* 0x-prefixed or not.
resolveSymbolAsyncFetchesAddresses(symbolOrAddress) ==
  IF IsOk(resolveSymbol(symbolOrAddress))
  THEN Done("resolveSymbolAsync", symbolOrAddress, resolveSymbol(symbolOrAddress), <<>>)
  ELSE getTokenBySymbolBegin("resolveSymbolAsync", symbolOrAddress)

\* resolveSymbolAsync up to its await: the synchronous result, or the fetch by
\* symbol, or the error for an address that did not resolve.
resolveSymbolAsyncBegin(symbolOrAddress) ==
  IF IsOk(resolveSymbol(symbolOrAddress))
  THEN Done("resolveSymbolAsync", symbolOrAddress, resolveSymbol(symbolOrAddress), <<>>)
  ELSE IF ~startsWith0x(symbolOrAddress)
  THEN getTokenBySymbolBegin("resolveSymbolAsync", symbolOrAddress)
  ELSE Done("resolveSymbolAsync", symbolOrAddress, Throw("UnknownToken", symbolOrAddress), <<>>)

\* async resolveSymbolAsync(symbolOrAddress)
resolveSymbolAsync(t, symbolOrAddress) ==
  /\ CanStart(t)
  /\ Advance(t, resolveSymbolAsyncBegin(symbolOrAddress))
  /\ calls' = calls + 1
  /\ UNCHANGED <<cache, symbolIndex, provider, now, ticks, service, tool>>

\* getDecimalsAsync that asks the chain before the remote source when it has a
\* provider.
getDecimalsAsyncOnChainFirst(address) ==
  IF getDecimals(address) # Undefined
  THEN Done("getDecimalsAsync", address, getDecimals(address), <<>>)
  ELSE IF provider
  THEN Await("getDecimalsAsync", address, "decimals", <<"decimals">>)
  ELSE getTokenByAddressBegin("getDecimalsAsync", address)

\* getDecimalsAsync up to its await: the cached decimals, or getTokenByAddress.
getDecimalsAsyncBegin(address) ==
  IF getDecimals(address) # Undefined
  THEN Done("getDecimalsAsync", address, getDecimals(address), <<>>)
  ELSE getTokenByAddressBegin("getDecimalsAsync", address)

\* async getDecimalsAsync(address)
getDecimalsAsync(t, address) ==
  /\ CanStart(t)
  /\ Advance(t, getDecimalsAsyncBegin(address))
  /\ calls' = calls + 1
  /\ UNCHANGED <<cache, symbolIndex, provider, now, ticks, service, tool>>

\* fetchTokenByAddress resolves with a token: return this.addToCache(token, false)
fetchTokenByAddressResolves(t, token) ==
  /\ tasks[t].pc = "fetchTokenByAddress"
  /\ IF normalizeAddress(token.address) = InvalidAddress
     THEN /\ Advance(t, getTokenByAddressFailed(tasks[t], InvalidAddress))
          /\ UNCHANGED <<cache, symbolIndex>>
     ELSE LET added == addToCache(token, FALSE)
          IN  /\ cache' = added.cache
              /\ symbolIndex' = added.symbolIndex
              /\ Advance(t,
                   Done(tasks[t].op, tasks[t].arg,
                        IF tasks[t].op = "getDecimalsAsync" THEN Ok(added.ret.decimals)
                        ELSE Ok(added.ret),
                        Append(tasks[t].trace, "resolved")))
  /\ UNCHANGED <<provider, now, calls, ticks, service, tool>>

\* fetchTokenByAddress throws
fetchTokenByAddressRejects(t, msg) ==
  /\ tasks[t].pc = "fetchTokenByAddress"
  /\ Advance(t, getTokenByAddressFailed(tasks[t], msg))
  /\ UNCHANGED <<cache, symbolIndex, provider, now, calls, ticks, service, tool>>

\* fetchVerifiedTokenBySymbol resolves with a token: return this.addToCache(token, false)
fetchVerifiedTokenBySymbolResolves(t, token) ==
  /\ tasks[t].pc = "fetchVerifiedTokenBySymbol"
  /\ IF normalizeAddress(token.address) = InvalidAddress
     THEN /\ Advance(t,
               Done(tasks[t].op, tasks[t].arg, RemoteFetchFailed(tasks[t].arg, InvalidAddress),
                    Append(tasks[t].trace, "rejected")))
          /\ UNCHANGED <<cache, symbolIndex>>
     ELSE LET added == addToCache(token, FALSE)
          IN  /\ cache' = added.cache
              /\ symbolIndex' = added.symbolIndex
              /\ Advance(t,
                   Done(tasks[t].op, tasks[t].arg,
                        IF tasks[t].op = "resolveSymbolAsync" THEN Ok(added.ret.address)
                        ELSE Ok(added.ret),
                        Append(tasks[t].trace, "resolved")))
  /\ UNCHANGED <<provider, now, calls, ticks, service, tool>>

\* fetchVerifiedTokenBySymbol throws
fetchVerifiedTokenBySymbolRejects(t, msg) ==
  /\ tasks[t].pc = "fetchVerifiedTokenBySymbol"
  /\ Advance(t,
       Done(tasks[t].op, tasks[t].arg, RemoteFetchFailed(tasks[t].arg, msg),
            Append(tasks[t].trace, "rejected")))
  /\ UNCHANGED <<cache, symbolIndex, provider, now, calls, ticks, service, tool>>

\* contract.decimals() resolves: this.cacheOnChainDecimals(address, decimals)
decimalsResolves(t, decimals) ==
  /\ tasks[t].pc = "decimals"
  /\ cache' = cacheOnChainDecimals(tasks[t].arg, decimals)
  /\ Advance(t,
       Done(tasks[t].op, tasks[t].arg, Ok(decimals), Append(tasks[t].trace, "resolved")))
  /\ UNCHANGED <<symbolIndex, provider, now, calls, ticks, service, tool>>

\* contract.decimals() throws: the error leaves getDecimalsAsync
decimalsRejects(t) ==
  /\ tasks[t].pc = "decimals"
  /\ Advance(t,
       Done(tasks[t].op, tasks[t].arg, Throw("OnChainCallFailed", tasks[t].arg),
            Append(tasks[t].trace, "rejected")))
  /\ UNCHANGED <<cache, symbolIndex, provider, now, calls, ticks, service, tool>>

\* ------------------------------------------------------------------------
\* TokenService: cache management, provider, clock
\* ------------------------------------------------------------------------

\* clearDynamicCache that drops the expired records only.
clearDynamicCacheDropsExpiredOnly ==
  /\ LET kept == [a \in {x \in DOMAIN cache : ~isExpired(cache[x])} |-> cache[a]]
     IN  /\ cache' = kept
         /\ symbolIndex' = [s \in {x \in DOMAIN symbolIndex : MapHas(kept, symbolIndex[x])}
                              |-> symbolIndex[s]]
  /\ UNCHANGED <<provider, now, tasks, returned, calls, ticks, service, tool>>

\* clearDynamicCache that leaves the symbol index as it is.
clearDynamicCacheKeepsIndex ==
  /\ cache' = [a \in {x \in DOMAIN cache : cache[x].isStatic} |-> cache[a]]
  /\ UNCHANGED <<symbolIndex, provider, now, tasks, returned, calls, ticks, service, tool>>

\* clearDynamicCache that also abandons the calls suspended on a remote or
\* on-chain call.
clearDynamicCacheCancelsFetches ==
  /\ LET kept == [a \in {x \in DOMAIN cache : cache[x].isStatic} |-> cache[a]]
     IN  /\ cache' = kept
         /\ symbolIndex' = [s \in {x \in DOMAIN symbolIndex : MapHas(kept, symbolIndex[x])}
                              |-> symbolIndex[s]]
  /\ tasks' = [t \in Tasks |-> IdleTask]
  /\ UNCHANGED <<provider, now, returned, calls, ticks, service, tool>>

\* Clear all non-static tokens from cache.
clearDynamicCache ==
  /\ LET kept == [a \in {x \in DOMAIN cache : cache[x].isStatic} |-> cache[a]]
     IN  /\ cache' = kept
         /\ symbolIndex' = [s \in {x \in DOMAIN symbolIndex : MapHas(kept, symbolIndex[x])}
                              |-> symbolIndex[s]]
  /\ UNCHANGED <<provider, now, tasks, returned, calls, ticks, service, tool>>

\* Set the RPC provider for on-chain fallback.
setProvider ==
  /\ ~provider
  /\ provider' = TRUE
  /\ UNCHANGED <<cache, symbolIndex, now, tasks, returned, calls, ticks, service, tool>>

\* Time passes.
Tick(step) ==
  /\ ticks < MaxTicks
  /\ now' = now + step
  /\ ticks' = ticks + 1
  /\ UNCHANGED <<cache, symbolIndex, provider, tasks, returned, calls, service, tool>>

\* ------------------------------------------------------------------------
\* Specification
\* ------------------------------------------------------------------------

\* The singleton slot before the first getTokenService: no instance.
\* instance is the instance the slot holds (0: null), baseUrl the URL it was
\* constructed with, constructed the number of instances made so far, issued
\* the instances getTokenService has returned since the last reset.
NoService == [instance |-> 0, baseUrl |-> "", constructed |-> 0, issued |-> {}]

\* No request is being handled.
IdleTool ==
  [name |-> "none", pc |-> "idle", token |-> "", tokenAddress |-> "", amount |-> <<>>,
   tokens |-> <<>>, decimals |-> 0, amountWei |-> 0, buyAmount |-> 0, pool |-> "",
   userInfo |-> [amount |-> 0, unpoolAmount |-> 0, unpoolTime |-> 0 - 1],
   tokenAddresses |-> <<>>, result |-> Pending, trace |-> <<>>]

\* new TokenService(): loadStaticTokens(), no provider. The service is
\* constructed directly, as the tests do: the singleton slot is not used and
\* no server request is handled.
Init ==
  /\ cache = loadStaticTokens(Len(STATIC_TOKENS)).cache
  /\ symbolIndex = loadStaticTokens(Len(STATIC_TOKENS)).symbolIndex
  /\ provider = FALSE
  /\ now = 2 * TOKEN_TTL_MS
  /\ tasks = [t \in Tasks |-> IdleTask]
  /\ returned = [seq |-> 0, task |-> 0, op |-> "none", arg |-> "",
                 result |-> Pending, trace |-> <<>>]
  /\ calls = 0
  /\ ticks = 0
  /\ service = NoService
  /\ tool = IdleTool

Next ==
  \/ \E t \in Tasks, a \in AddressInputs : getTokenByAddress(t, a)
  \/ \E t \in Tasks, s \in SymbolInputs : getTokenBySymbol(t, s)
  \/ \E t \in Tasks, s \in ResolveInputs : resolveSymbolAsync(t, s)
  \/ \E t \in Tasks, a \in AddressInputs : getDecimalsAsync(t, a)
  \/ \E t \in Tasks, token \in RemoteTokens : fetchTokenByAddressResolves(t, token)
  \/ \E t \in Tasks, msg \in RemoteErrors : fetchTokenByAddressRejects(t, msg)
  \/ \E t \in Tasks, token \in RemoteTokens : fetchVerifiedTokenBySymbolResolves(t, token)
  \/ \E t \in Tasks, msg \in RemoteErrors : fetchVerifiedTokenBySymbolRejects(t, msg)
  \/ \E t \in Tasks, d \in OnChainDecimals : decimalsResolves(t, d)
  \/ \E t \in Tasks : decimalsRejects(t)
  \/ clearDynamicCache
  \/ setProvider
  \/ \E step \in TickSteps : Tick(step)

Spec == Init /\ [][Next]_vars

\* ------------------------------------------------------------------------
\* MCP server: amounts
\* ------------------------------------------------------------------------

DecimalDigits == <<"0", "1", "2", "3", "4", "5", "6", "7", "8", "9">>

\* BigInt.prototype.toString(): the decimal numeral of n, as characters.
RECURSIVE toString(_)
toString(n) ==
  IF n < 10 THEN <<DecimalDigits[n + 1]>>
  ELSE Append(toString(n \div 10), DecimalDigits[(n % 10) + 1])

\* 10^d
RECURSIVE Pow10(_)
Pow10(d) == IF d = 0 THEN 1 ELSE 10 * Pow10(d - 1)

\* An index argument of slice, brought into 0..Len: a negative index counts
\* from the end, and -0 is 0.
sliceIndex(cs, i) ==
  IF i < 0 THEN (IF Len(cs) + i < 0 THEN 0 ELSE Len(cs) + i)
  ELSE IF i > Len(cs) THEN Len(cs) ELSE i

\* String.prototype.slice(start, end)
slice(cs, start, end) == SubSeq(cs, sliceIndex(cs, start) + 1, sliceIndex(cs, end))

\* cs from position i on matches /\.?0+$/ : an optional point, then one or
\* more zeros up to the end.
matchesTrailingZeros(cs, i) ==
  LET rest == SubSeq(cs, i, Len(cs))
      zeros == IF rest # <<>> /\ rest[1] = "." THEN Tail(rest) ELSE rest
  IN  zeros # <<>> /\ \A k \in 1..Len(zeros) : zeros[k] = "0"

\* replace(/\.?0+$/, ""): the leftmost match is removed.
replaceTrailingZeros(cs) ==
  IF \E i \in 1..Len(cs) : matchesTrailingZeros(cs, i)
  THEN LET first == CHOOSE i \in 1..Len(cs) :
                      /\ matchesTrailingZeros(cs, i)
                      /\ \A j \in 1..(i - 1) : ~matchesTrailingZeros(cs, j)
       IN  SubSeq(cs, 1, first - 1)
  ELSE cs

\* Helper: Format amount with decimals
formatAmount(amount, decimals) ==
  LET amountStr == padStart(toString(amount), decimals + 1)
      sliced == slice(amountStr, 0, 0 - decimals)
      whole == IF sliced = <<>> THEN <<"0">> ELSE sliced
      fraction == slice(amountStr, 0 - decimals, Len(amountStr))
  IN  replaceTrailingZeros(whole \o <<".">> \o fraction)

\* ------------------------------------------------------------------------
\* MCP server: staking tools
\* ------------------------------------------------------------------------

\* BigInt(string) of a string of decimal digits; BigInt("") is 0n.
RECURSIVE toBigInt(_)
toBigInt(cs) ==
  IF cs = <<>> THEN 0
  ELSE 10 * toBigInt(SubSeq(cs, 1, Len(cs) - 1))
         + (CHOOSE v \in 0..9 : DecimalDigits[v + 1] = cs[Len(cs)])

\* amount.split("."): the parts of cs between its points.
RECURSIVE split(_)
split(cs) ==
  IF \A i \in 1..Len(cs) : cs[i] # "." THEN <<cs>>
  ELSE LET point == CHOOSE i \in 1..Len(cs) :
                      cs[i] = "." /\ \A j \in 1..(i - 1) : cs[j] # "."
       IN  <<SubSeq(cs, 1, point - 1)>> \o split(SubSeq(cs, point + 1, Len(cs)))

\* String.prototype.padEnd(width, "0")
padEnd(cs, width) ==
  IF Len(cs) >= width THEN cs ELSE cs \o [i \in 1..(width - Len(cs)) |-> "0"]

\* Parse amount with decimals: the part of parseAmount after it has read the
\* decimals of the token.
parseAmount(amount, decimals) ==
  LET parts == split(amount)
      whole == parts[1]
      fraction == IF Len(parts) > 1 THEN parts[2] ELSE <<>>
      paddedFraction == padEnd(fraction, decimals)
      amountStr == whole \o slice(paddedFraction, 0, decimals)
  IN  toBigInt(amountStr)

\* Token addresses (Mainnet)
TOKENS ==
  [ETH |-> ETH_ADDRESS, STRK |-> STRK_ADDRESS, USDC |-> USDC_ADDRESS, USDT |-> USDT_ADDRESS]

\* Helper: Resolve token address from symbol (the server's own table lookup).
indexResolveTokenAddress(token) ==
  LET upperToken == toUpperCase(token)
  IN  IF upperToken \in DOMAIN TOKENS THEN Ok(TOKENS[upperToken])
      ELSE IF startsWith0x(token) THEN Ok(token)
      ELSE Throw("UnknownToken", token)

\* userInfo.unpoolTime when there is none (undefined).
NoUnpoolTime == 0 - 1

\* Tokens the staking tools are called with: a stakeable symbol, its address,
\* an unknown symbol.
StakeTokens == {"STRK", STRK_ADDRESS, "LORDS"}

\* Amounts to unstake, whole numbers of tokens, as the caller writes them.
UnstakeAmounts == {<<"1">>, <<"3">>}

\* Raw amounts a tool has reported, in the smallest unit of the token.
RawAmounts == {5, 150}

\* Amounts to transfer or to sell: what formatAmount made of a raw amount, and
\* an amount with more fractional digits than any token has decimals.
TransferAmounts ==
  {formatAmount(a, d) : a \in RawAmounts, d \in {0, 2}}
    \cup {<<"1", ".", "2", "3", "9">>}

\* Answers of getQuotes: no quote, or one.
QuoteAnswers == {<<>>, <<[buyAmount |-> 150]>>}

\* Names of tools the server does not have.
UnknownTools == {"starknet_mint"}

\* The tools of the server that are modelled.
ServerTools ==
  {"starknet_transfer", "starknet_swap", "starknet_initiate_unstake",
   "starknet_complete_unstake", "starknet_get_unbonding_status"}

\* Answers of contract.decimals() for a staked token.
StakingDecimals == {0, 2}

\* Answers of getAvnuStakingInfo: the delegation pools, with the token
\* address in upper case.
PoolAnswers ==
  { <<>>,
    << [tokenAddress |-> toUpperCase(ETH_ADDRESS), poolAddress |-> "eth-pool"],
       [tokenAddress |-> toUpperCase(STRK_ADDRESS), poolAddress |-> "strk-pool"] >> }

\* Answers of getUserStakingInfo: raw staked amount, raw amount being
\* unstaked, and the end of its cooldown.
UserStakingInfos ==
  [amount : {0, 200}, unpoolAmount : {0, 150},
   unpoolTime : {NoUnpoolTime, 2 * TOKEN_TTL_MS, 3 * TOKEN_TTL_MS + 1}]

\* Messages of the errors a collaborator of the server fails with.
ToolErrors == {"request failed"}

\* The handler goes on to await the collaborator call named call.
ToolAwait(state, pc, call) == [state EXCEPT !.pc = pc, !.trace = Append(@, call)]

\* The handler returns, or throws into the catch block of the request
\* handler, which answers with the error.
ToolDone(state, result) == [state EXCEPT !.pc = "done", !.result = result]

\* The server takes a new request when it handles none.
ToolCanStart == tool.pc \in {"idle", "done"}

\* pool.tokenAddress.toLowerCase() === tokenAddress.toLowerCase(): the first
\* such pool, "" when there is none.
findPool(pools, tokenAddress) ==
  LET hits == {i \in 1..Len(pools) :
                 toLowerCase(pools[i].tokenAddress) = toLowerCase(tokenAddress)}
  IN  IF hits = {} THEN ""
      ELSE pools[CHOOSE i \in hits : \A j \in hits : i <= j].poolAddress

\* Unbonding status that counts a cooldown ending now as still running.
unbondingStatusInclusive(userInfo) ==
  IF userInfo.unpoolAmount = 0 THEN "none"
  ELSE IF userInfo.unpoolTime # NoUnpoolTime /\ userInfo.unpoolTime >= now THEN "cooldown"
  ELSE "ready"

\* Determine status: "none" | "cooldown" | "ready"
unbondingStatus(userInfo) ==
  IF userInfo.unpoolAmount = 0 THEN "none"
  ELSE IF userInfo.unpoolTime # NoUnpoolTime /\ userInfo.unpoolTime > now THEN "cooldown"
  ELSE "ready"

\* The checks of starknet_initiate_unstake in the other order.
unstakeChecksBalanceFirst(state, userInfo) ==
  IF userInfo.amount < state.amountWei
  THEN ToolAwait([state EXCEPT !.userInfo = userInfo], "insufficientStaked", "decimals")
  ELSE IF userInfo.unpoolAmount > 0
  THEN ToolAwait([state EXCEPT !.userInfo = userInfo], "activeUnstake", "decimals")
  ELSE ToolAwait([state EXCEPT !.userInfo = userInfo], "initiateUnstakeToCalls",
                 "initiateUnstakeToCalls")

\* starknet_initiate_unstake after getUserStakingInfo: the check for an
\* active unbonding, then the check of the staked amount, then building the
\* calls.
unstakeChecks(state, userInfo) ==
  IF userInfo.unpoolAmount > 0
  THEN ToolAwait([state EXCEPT !.userInfo = userInfo], "activeUnstake", "decimals")
  ELSE IF userInfo.amount < state.amountWei
  THEN ToolAwait([state EXCEPT !.userInfo = userInfo], "insufficientStaked", "decimals")
  ELSE ToolAwait([state EXCEPT !.userInfo = userInfo], "initiateUnstakeToCalls",
                 "initiateUnstakeToCalls")

\* The check of starknet_complete_unstake that takes a cooldown ending now for
\* one that is still running.
completeUnstakeChecksInclusive(state, userInfo) ==
  IF userInfo.unpoolAmount = 0
  THEN ToolDone([state EXCEPT !.userInfo = userInfo], Throw("NoActiveUnstakeRequest", state.token))
  ELSE IF userInfo.unpoolTime # NoUnpoolTime /\ userInfo.unpoolTime >= now
  THEN ToolDone([state EXCEPT !.userInfo = userInfo],
                Throw("CooldownNotComplete", userInfo.unpoolTime))
  ELSE ToolAwait([state EXCEPT !.userInfo = userInfo], "unstakeToCalls", "unstakeToCalls")

\* starknet_complete_unstake after getUserStakingInfo: no active unstake
\* request, cooldown not complete, or building the unstake calls.
completeUnstakeChecks(state, userInfo) ==
  IF userInfo.unpoolAmount = 0
  THEN ToolDone([state EXCEPT !.userInfo = userInfo], Throw("NoActiveUnstakeRequest", state.token))
  ELSE IF userInfo.unpoolTime # NoUnpoolTime /\ userInfo.unpoolTime > now
  THEN ToolDone([state EXCEPT !.userInfo = userInfo],
                Throw("CooldownNotComplete", userInfo.unpoolTime))
  ELSE ToolAwait([state EXCEPT !.userInfo = userInfo], "unstakeToCalls", "unstakeToCalls")

\* The response of the request handler: what the case of the tool returned,
\* or what the catch block makes of the error thrown.
callToolResponse(state) ==
  IF IsThrow(state.result)
  THEN [isError |-> TRUE, error |-> TRUE, message |-> state.result[2], tool |-> state.name]
  ELSE [isError |-> FALSE, content |-> state.result[2]]

\* default: throw new Error(`Unknown tool: ${name}`)
unknownTool(name) ==
  /\ ToolCanStart
  /\ tool' = ToolDone([IdleTool EXCEPT !.name = name], Throw("UnknownTool", name))
  /\ UNCHANGED <<cache, symbolIndex, provider, now, tasks, returned, calls, ticks, service>>

\* case "starknet_transfer": up to the await in parseAmount
starknet_transfer(token, amount) ==
  /\ ToolCanStart
  /\ LET tokenAddress == indexResolveTokenAddress(token)
         call == [IdleTool EXCEPT !.name = "starknet_transfer",
                                  !.token = token, !.amount = amount]
     IN  tool' = IF IsThrow(tokenAddress) THEN ToolDone(call, tokenAddress)
                 ELSE ToolAwait([call EXCEPT !.tokenAddress = tokenAddress[2]],
                                "parseAmount", "decimals")
  /\ UNCHANGED <<cache, symbolIndex, provider, now, tasks, returned, calls, ticks, service>>

\* case "starknet_swap": up to the await in parseAmount
starknet_swap(sellToken, buyToken, amount) ==
  /\ ToolCanStart
  /\ LET sellTokenAddress == indexResolveTokenAddress(sellToken)
         buyTokenAddress == indexResolveTokenAddress(buyToken)
         call == [IdleTool EXCEPT !.name = "starknet_swap",
                                  !.token = sellToken, !.amount = amount]
     IN  tool' = IF IsThrow(sellTokenAddress) THEN ToolDone(call, sellTokenAddress)
                 ELSE IF IsThrow(buyTokenAddress) THEN ToolDone(call, buyTokenAddress)
                 ELSE ToolAwait([call EXCEPT !.tokenAddress = sellTokenAddress[2]],
                                "parseAmount", "decimals")
  /\ UNCHANGED <<cache, symbolIndex, provider, now, tasks, returned, calls, ticks, service>>

\* case "starknet_complete_unstake": up to the await of getAvnuStakingInfo
starknet_complete_unstake(token) ==
  /\ ToolCanStart
  /\ LET tokenAddress == indexResolveTokenAddress(token)
         call == [IdleTool EXCEPT !.name = "starknet_complete_unstake", !.token = token]
     IN  tool' = IF IsThrow(tokenAddress) THEN ToolDone(call, tokenAddress)
                 ELSE ToolAwait([call EXCEPT !.tokenAddress = tokenAddress[2]],
                                "getAvnuStakingInfo", "getAvnuStakingInfo")
  /\ UNCHANGED <<cache, symbolIndex, provider, now, tasks, returned, calls, ticks, service>>

\* case "starknet_initiate_unstake": up to the await in parseAmount
starknet_initiate_unstake(token, amount) ==
  /\ ToolCanStart
  /\ LET tokenAddress == indexResolveTokenAddress(token)
         call == [IdleTool EXCEPT !.name = "starknet_initiate_unstake",
                                  !.token = token, !.amount = amount]
     IN  tool' = IF IsThrow(tokenAddress) THEN ToolDone(call, tokenAddress)
                 ELSE ToolAwait([call EXCEPT !.tokenAddress = tokenAddress[2]],
                                "parseAmount", "decimals")
  /\ UNCHANGED <<cache, symbolIndex, provider, now, tasks, returned, calls, ticks, service>>

\* case "starknet_get_unbonding_status": up to the await of getUserStakingInfo
starknet_get_unbonding_status(token) ==
  /\ ToolCanStart
  /\ LET tokenAddress == indexResolveTokenAddress(token)
         call == [IdleTool EXCEPT !.name = "starknet_get_unbonding_status", !.token = token]
     IN  tool' = IF IsThrow(tokenAddress) THEN ToolDone(call, tokenAddress)
                 ELSE ToolAwait([call EXCEPT !.tokenAddress = tokenAddress[2]],
                                "getUserStakingInfo", "getUserStakingInfo")
  /\ UNCHANGED <<cache, symbolIndex, provider, now, tasks, returned, calls, ticks, service>>

\* contract.decimals() resolves: parseAmount returns and the tool goes on to
\* its next call, the two refusals of an unstake throw their message, the
\* unbonding status is determined and returned, a swap or a completed unstake
\* returns its success response.
contractDecimalsResolves(decimals) ==
  /\ tool.pc \in {"parseAmount", "activeUnstake", "insufficientStaked", "unbondingStatus",
                  "buyDecimals", "amountClaimed"}
  /\ tool' =
       CASE tool.pc = "parseAmount" ->
              LET next == CASE tool.name = "starknet_transfer" -> "execute"
                            [] tool.name = "starknet_swap" -> "getQuotes"
                            [] OTHER -> "getAvnuStakingInfo"
              IN  ToolAwait([tool EXCEPT !.decimals = decimals,
                                         !.amountWei = parseAmount(tool.amount, decimals)],
                            next, next)
         [] tool.pc = "buyDecimals" ->
              ToolDone(tool, Ok([success |-> TRUE, sellToken |-> tool.token,
                                 sellAmount |-> tool.amount,
                                 buyAmount |-> formatAmount(tool.buyAmount, decimals)]))
         [] tool.pc = "amountClaimed" ->
              ToolDone(tool, Ok([success |-> TRUE, token |-> tool.token,
                                 amountClaimed |->
                                   formatAmount(tool.userInfo.unpoolAmount, decimals)]))
         [] tool.pc = "activeUnstake" ->
              ToolDone(tool, Throw("ActiveUnstake",
                                   formatAmount(tool.userInfo.unpoolAmount, decimals)))
         [] tool.pc = "insufficientStaked" ->
              ToolDone(tool, Throw("InsufficientStakedBalance",
                                   formatAmount(tool.userInfo.amount, decimals)))
         [] tool.pc = "unbondingStatus" ->
              ToolDone([tool EXCEPT !.decimals = decimals],
                       Ok([status |-> unbondingStatus(tool.userInfo),
                           unbondingAmount |-> formatAmount(tool.userInfo.unpoolAmount, decimals),
                           cooldownEndsAt |-> tool.userInfo.unpoolTime]))
  /\ UNCHANGED <<cache, symbolIndex, provider, now, tasks, returned, calls, ticks, service>>

\* getAvnuStakingInfo resolves: the pool of the token, or no pool found.
getAvnuStakingInfoResolves(pools) ==
  /\ tool.pc = "getAvnuStakingInfo"
  /\ LET pool == findPool(pools, tool.tokenAddress)
     IN  tool' = IF pool = "" THEN ToolDone(tool, Throw("NoStakingPoolFound", tool.token))
                 ELSE ToolAwait([tool EXCEPT !.pool = pool],
                                "getUserStakingInfo", "getUserStakingInfo")
  /\ UNCHANGED <<cache, symbolIndex, provider, now, tasks, returned, calls, ticks, service>>

\* getUserStakingInfo resolves with the position of the user.
getUserStakingInfoResolves(userInfo) ==
  /\ tool.pc = "getUserStakingInfo"
  /\ tool' = IF tool.name = "starknet_initiate_unstake" THEN unstakeChecks(tool, userInfo)
             ELSE IF tool.name = "starknet_complete_unstake"
             THEN completeUnstakeChecks(tool, userInfo)
             ELSE ToolAwait([tool EXCEPT !.userInfo = userInfo], "unbondingStatus", "decimals")
  /\ UNCHANGED <<cache, symbolIndex, provider, now, tasks, returned, calls, ticks, service>>

\* initiateUnstakeToCalls resolves with the calls: account.execute(calls)
initiateUnstakeToCallsResolves ==
  /\ tool.pc = "initiateUnstakeToCalls"
  /\ tool' = ToolAwait(tool, "execute", "execute")
  /\ UNCHANGED <<cache, symbolIndex, provider, now, tasks, returned, calls, ticks, service>>

\* unstakeToCalls resolves with the calls: account.execute(calls)
unstakeToCallsResolves ==
  /\ tool.pc = "unstakeToCalls"
  /\ tool' = ToolAwait(tool, "execute", "execute")
  /\ UNCHANGED <<cache, symbolIndex, provider, now, tasks, returned, calls, ticks, service>>

\* getQuotes resolves: no quotes available, or executeSwap with the best quote
getQuotesResolves(quotes) ==
  /\ tool.pc = "getQuotes"
  /\ tool' = IF Len(quotes) = 0 THEN ToolDone(tool, Throw("NoQuotesAvailable", tool.token))
             ELSE ToolAwait([tool EXCEPT !.buyAmount = quotes[1].buyAmount],
                            "executeSwap", "executeSwap")
  /\ UNCHANGED <<cache, symbolIndex, provider, now, tasks, returned, calls, ticks, service>>

\* executeSwap resolves with the transaction hash: the decimals of the token
\* bought are read for the response
executeSwapResolves ==
  /\ tool.pc = "executeSwap"
  /\ tool' = ToolAwait(tool, "buyDecimals", "decimals")
  /\ UNCHANGED <<cache, symbolIndex, provider, now, tasks, returned, calls, ticks, service>>

\* account.execute resolves with the transaction hash
executeResolves ==
  /\ tool.pc = "execute"
  /\ tool' = ToolAwait(tool, "waitForTransaction", "waitForTransaction")
  /\ UNCHANGED <<cache, symbolIndex, provider, now, tasks, returned, calls, ticks, service>>

\* provider.waitForTransaction resolves: the success response, for a completed
\* unstake after the decimals of the token have been read
waitForTransactionResolves ==
  /\ tool.pc = "waitForTransaction"
  /\ tool' = IF tool.name = "starknet_complete_unstake"
             THEN ToolAwait(tool, "amountClaimed", "decimals")
             ELSE ToolDone(tool, Ok([success |-> TRUE, token |-> tool.token,
                                     amount |-> tool.amount, poolAddress |-> tool.pool]))
  /\ UNCHANGED <<cache, symbolIndex, provider, now, tasks, returned, calls, ticks, service>>

\* The awaited call of a staking tool throws: the catch block of the request
\* handler answers with the error.
stakingCallRejects(msg) ==
  /\ tool.name \in ServerTools
  /\ tool.pc \notin {"idle", "done"}
  /\ tool' = ToolDone(tool, Throw("CallFailed", msg))
  /\ UNCHANGED <<cache, symbolIndex, provider, now, tasks, returned, calls, ticks, service>>

StakingNext ==
  \/ \E token \in StakeTokens, amount \in UnstakeAmounts :
       starknet_initiate_unstake(token, amount)
  \/ \E token \in StakeTokens : starknet_get_unbonding_status(token)
  \/ \E token \in StakeTokens : starknet_complete_unstake(token)
  \/ \E token \in StakeTokens, amount \in TransferAmounts : starknet_transfer(token, amount)
  \/ \E sellToken \in StakeTokens, buyToken \in StakeTokens, amount \in TransferAmounts :
       starknet_swap(sellToken, buyToken, amount)
  \/ \E name \in UnknownTools : unknownTool(name)
  \/ \E decimals \in StakingDecimals : contractDecimalsResolves(decimals)
  \/ \E pools \in PoolAnswers : getAvnuStakingInfoResolves(pools)
  \/ \E userInfo \in UserStakingInfos : getUserStakingInfoResolves(userInfo)
  \/ initiateUnstakeToCallsResolves
  \/ unstakeToCallsResolves
  \/ \E quotes \in QuoteAnswers : getQuotesResolves(quotes)
  \/ executeSwapResolves
  \/ executeResolves
  \/ waitForTransactionResolves
  \/ \E msg \in ToolErrors : stakingCallRejects(msg)
  \/ \E step \in TickSteps : Tick(step)

\* The staking tools of the server, with the clock.
StakingSpec == Init /\ [][StakingNext]_vars

\* ------------------------------------------------------------------------
\* MCP server: the shared TokenService and the balances tool
\* ------------------------------------------------------------------------

\* Number of TokenService instances constructed in one behaviour.
MaxInstances == 2

\* Maximum number of tokens that can be queried in a single batch balance
\* request.
MAX_BATCH_TOKENS == 200

\* Base URLs getTokenService is called with; "" when the argument is left out.
BaseUrls == {"", "https://test.api"}

\* Token lists of balance requests: none, empty, every list of one or two of
\* the tokens below, and a list one longer than the maximum.
BalanceTokens == {"eth", "LORDS", ETH_SHORT, ETH_ADDRESS, MALFORMED}

TokenLists ==
  {Undefined, <<>>, [i \in 1..(MAX_BATCH_TOKENS + 1) |-> MALFORMED]}
    \cup {<<a>> : a \in BalanceTokens}
    \cup {<<a, b>> : a \in BalanceTokens, b \in BalanceTokens}

\* Remote answers to lookups made on the shared instance.
SharedAnswers == {token \in RemoteTokens : token.symbol = "lords"}

\* What a balance path answers for every token of the request: the raw
\* balance and the decimals.
BalanceAnswers == [raw : {0, 150}, decimals : StakingDecimals]

\* getTokenService that makes a new instance when it is given a base URL
\* other than the one of the instance it holds.
getTokenServiceHonoursBaseUrl(baseUrl) ==
  IF service.instance # 0 /\ (baseUrl = "" \/ baseUrl = service.baseUrl)
  THEN [service |-> [service EXCEPT !.issued = @ \cup {service.instance}],
        cache |-> cache, symbolIndex |-> symbolIndex]
  ELSE LET id == service.constructed + 1
       IN  [service |-> [instance |-> id, baseUrl |-> baseUrl, constructed |-> id,
                         issued |-> service.issued \cup {id}],
            cache |-> loadStaticTokens(Len(STATIC_TOKENS)).cache,
            symbolIndex |-> loadStaticTokens(Len(STATIC_TOKENS)).symbolIndex]

\* getTokenService(baseUrl): the instance the slot holds, constructed on the
\* first use. Gives the slot and the maps of the instance after the call.
getTokenService(baseUrl) ==
  IF service.instance # 0
  THEN [service |-> [service EXCEPT !.issued = @ \cup {service.instance}],
        cache |-> cache, symbolIndex |-> symbolIndex]
  ELSE LET id == service.constructed + 1
       IN  [service |-> [instance |-> id, baseUrl |-> baseUrl, constructed |-> id,
                         issued |-> service.issued \cup {id}],
            cache |-> loadStaticTokens(Len(STATIC_TOKENS)).cache,
            symbolIndex |-> loadStaticTokens(Len(STATIC_TOKENS)).symbolIndex]

\* A caller asks for the shared service.
getTokenServiceCall(baseUrl) ==
  /\ service.instance # 0 \/ service.constructed < MaxInstances
  /\ service' = getTokenService(baseUrl).service
  /\ cache' = getTokenService(baseUrl).cache
  /\ symbolIndex' = getTokenService(baseUrl).symbolIndex
  /\ UNCHANGED <<provider, now, tasks, returned, calls, ticks, tool>>

\* resetTokenService(): the slot is emptied; the instance it held is no
\* longer reachable through the accessor.
resetTokenService ==
  /\ service.instance # 0
  /\ service.constructed < MaxInstances
  /\ service' = [service EXCEPT !.instance = 0, !.baseUrl = "", !.issued = {}]
  /\ cache' = EmptyMap
  /\ symbolIndex' = EmptyMap
  /\ UNCHANGED <<provider, now, tasks, returned, calls, ticks, tool>>

\* A lookup a caller made on the shared instance is answered by the remote
\* source: this.addToCache(token, false) on the maps of that instance.
sharedLookupResolves(token) ==
  /\ service.instance # 0
  /\ cache' = addToCache(token, FALSE).cache
  /\ symbolIndex' = addToCache(token, FALSE).symbolIndex
  /\ UNCHANGED <<provider, now, tasks, returned, calls, ticks, service, tool>>

\* Resolve token symbol to contract address: getTokenService().resolveSymbol(token)
resolveTokenAddress(token) == resolveSymbol(token)

\* tokens.map(resolveTokenAddress) is reached: the list is neither empty nor
\* too long.
passesSizeChecks(tokens) ==
  /\ tokens # Undefined
  /\ Len(tokens) # 0
  /\ ~(Len(tokens) > MAX_BATCH_TOKENS)

\* The error of the first token of the list that does not resolve.
firstFailure(resolved) ==
  resolved[CHOOSE i \in 1..Len(resolved) :
             /\ IsThrow(resolved[i])
             /\ \A j \in 1..(i - 1) : ~IsThrow(resolved[j])]

\* validateTokensInput that resolves the tokens before it checks the length
\* of the list.
validateTokensInputResolvesFirst(tokens) ==
  IF tokens = Undefined \/ Len(tokens) = 0
  THEN Throw("At least one token is required", 0)
  ELSE LET resolved == [i \in 1..Len(tokens) |-> resolveTokenAddress(tokens[i])]
           tokenAddresses == [i \in 1..Len(tokens) |-> resolved[i][2]]
       IN  IF \E i \in 1..Len(tokens) : IsThrow(resolved[i]) THEN firstFailure(resolved)
           ELSE IF Len(tokens) > MAX_BATCH_TOKENS
           THEN Throw("Maximum tokens per request", MAX_BATCH_TOKENS)
           ELSE IF Cardinality({tokenAddresses[i] : i \in 1..Len(tokens)}) # Len(tokens)
           THEN Throw("Duplicate tokens in request", 0)
           ELSE Ok(tokenAddresses)

\* validateTokensInput that looks for duplicates among the token strings of
\* the caller instead of the resolved addresses.
validateTokensInputComparesStrings(tokens) ==
  IF tokens = Undefined \/ Len(tokens) = 0
  THEN Throw("At least one token is required", 0)
  ELSE IF Len(tokens) > MAX_BATCH_TOKENS
  THEN Throw("Maximum tokens per request", MAX_BATCH_TOKENS)
  ELSE LET resolved == [i \in 1..Len(tokens) |-> resolveTokenAddress(tokens[i])]
           tokenAddresses == [i \in 1..Len(tokens) |-> resolved[i][2]]
       IN  IF \E i \in 1..Len(tokens) : IsThrow(resolved[i]) THEN firstFailure(resolved)
           ELSE IF Cardinality({tokens[i] : i \in 1..Len(tokens)}) # Len(tokens)
           THEN Throw("Duplicate tokens in request", 0)
           ELSE Ok(tokenAddresses)

\* Validate and resolve tokens input for batch balance queries. Checks for
\* empty array, max tokens limit, and duplicates.
validateTokensInput(tokens) ==
  IF tokens = Undefined \/ Len(tokens) = 0
  THEN Throw("At least one token is required", 0)
  ELSE IF Len(tokens) > MAX_BATCH_TOKENS
  THEN Throw("Maximum tokens per request", MAX_BATCH_TOKENS)
  ELSE LET resolved == [i \in 1..Len(tokens) |-> resolveTokenAddress(tokens[i])]
           tokenAddresses == [i \in 1..Len(tokens) |-> resolved[i][2]]
       IN  IF \E i \in 1..Len(tokens) : IsThrow(resolved[i]) THEN firstFailure(resolved)
           ELSE IF Cardinality({tokenAddresses[i] : i \in 1..Len(tokens)}) # Len(tokens)
           THEN Throw("Duplicate tokens in request", 0)
           ELSE Ok(tokenAddresses)

\* getBalancesResult({address, tokens}): validateTokensInput, which reaches
\* the shared service once the list passes the size checks, then the primary
\* balance path.
getBalancesResult(tokens) ==
  /\ ToolCanStart
  /\ passesSizeChecks(tokens) => (service.instance # 0 \/ service.constructed < MaxInstances)
  /\ IF passesSizeChecks(tokens)
     THEN /\ service' = getTokenService("").service
          /\ cache' = getTokenService("").cache
          /\ symbolIndex' = getTokenService("").symbolIndex
     ELSE UNCHANGED <<service, cache, symbolIndex>>
  /\ UNCHANGED <<provider, now, tasks, returned, calls, ticks>>
  /\ LET call == [IdleTool EXCEPT !.name = "starknet_get_balances", !.tokens = tokens]
         tokenAddresses == validateTokensInput(tokens)'
     IN  tool' = IF IsThrow(tokenAddresses) THEN ToolDone(call, tokenAddresses)
                 ELSE ToolAwait([call EXCEPT !.tokenAddresses = tokenAddresses[2]],
                                "balanceChecker", "balanceChecker")

\* The response of a balance request: one entry per token asked for, in the
\* order asked, with the token string of the caller and the path that served.
balancesResponse(state, answer, method) ==
  Ok([balances |-> [i \in 1..Len(state.tokens) |->
                      [token |-> state.tokens[i],
                       tokenAddress |-> state.tokenAddresses[i],
                       balance |-> formatAmount(answer.raw, answer.decimals),
                       raw |-> toString(answer.raw),
                       decimals |-> answer.decimals]],
      tokensQueried |-> Len(state.tokens),
      method |-> method])

\* The primary path (balance checker) answers: method "balance_checker".
balanceCheckerResolves(answer) ==
  /\ tool.pc = "balanceChecker"
  /\ tool' = ToolDone(tool, balancesResponse(tool, answer, "balance_checker"))
  /\ UNCHANGED <<cache, symbolIndex, provider, now, tasks, returned, calls, ticks, service>>

\* fetchTokenBalances that gives up when the primary path fails.
balanceCheckerRejectsSurfaces(msg) ==
  /\ tool.pc = "balanceChecker"
  /\ tool' = ToolDone(tool, Throw("BalanceFetchFailed", msg))
  /\ UNCHANGED <<cache, symbolIndex, provider, now, tasks, returned, calls, ticks, service>>

\* The primary path fails: console.warn, then the batch-RPC path.
balanceCheckerRejects(msg) ==
  /\ tool.pc = "balanceChecker"
  /\ tool' = ToolAwait(ToolAwait(tool, "batchRpc", "warn"), "batchRpc", "batchRpc")
  /\ UNCHANGED <<cache, symbolIndex, provider, now, tasks, returned, calls, ticks, service>>

\* The batch-RPC path answers: method "batch_rpc".
batchRpcResolves(answer) ==
  /\ tool.pc = "batchRpc"
  /\ tool' = ToolDone(tool, balancesResponse(tool, answer, "batch_rpc"))
  /\ UNCHANGED <<cache, symbolIndex, provider, now, tasks, returned, calls, ticks, service>>

\* The batch-RPC path fails too: the caller gets the failure.
batchRpcRejects(msg) ==
  /\ tool.pc = "batchRpc"
  /\ tool' = ToolDone(tool, Throw("BalanceFetchFailed", msg))
  /\ UNCHANGED <<cache, symbolIndex, provider, now, tasks, returned, calls, ticks, service>>

\* Module load: no TokenService instance yet, no request.
BalancesInit ==
  /\ cache = EmptyMap
  /\ symbolIndex = EmptyMap
  /\ provider = FALSE
  /\ now = 2 * TOKEN_TTL_MS
  /\ tasks = [t \in Tasks |-> IdleTask]
  /\ returned = [seq |-> 0, task |-> 0, op |-> "none", arg |-> "",
                 result |-> Pending, trace |-> <<>>]
  /\ calls = 0
  /\ ticks = 0
  /\ service = NoService
  /\ tool = IdleTool

BalancesNext ==
  \/ \E baseUrl \in BaseUrls : getTokenServiceCall(baseUrl)
  \/ resetTokenService
  \/ \E token \in SharedAnswers : sharedLookupResolves(token)
  \/ \E tokens \in TokenLists : getBalancesResult(tokens)
  \/ \E answer \in BalanceAnswers : balanceCheckerResolves(answer)
  \/ \E msg \in ToolErrors : balanceCheckerRejects(msg)
  \/ \E answer \in BalanceAnswers : batchRpcResolves(answer)
  \/ \E msg \in ToolErrors : batchRpcRejects(msg)

\* The balances tool over the shared TokenService.
BalancesSpec == BalancesInit /\ [][BalancesNext]_vars

\* ------------------------------------------------------------------------
\* Properties
\* ------------------------------------------------------------------------

\* The registry records as the constructor caches them.
StaticRecords ==
  {[STATIC_TOKENS[i] EXCEPT !.address = normalizeAddress(STATIC_TOKENS[i].address)]
     : i \in 1..Len(STATIC_TOKENS)}

StaticAddresses == {r.address : r \in StaticRecords}

\* C1. Static precedence: in every reachable state the cached record at each
\* static registry address keeps its original decimals, its original symbol
\* and isStatic = TRUE.
C1_StaticPrecedence ==
  \A i \in 1..Len(STATIC_TOKEN_DATA) :
    LET data == STATIC_TOKEN_DATA[i]
    IN  /\ MapHas(cache, data.address)
        /\ cache[data.address].decimals = data.decimals
        /\ cache[data.address].symbol = data.symbol
        /\ cache[data.address].isStatic

\* C1 witness: a lookup of another address completed with a remote response
\* that claimed ETH's address with 8 decimals.
C1_Witness ==
  /\ returned.op = "getTokenByAddress"
  /\ returned.arg = LORDS_ADDRESS
  /\ returned.trace = <<"fetchTokenByAddress", "resolved">>
  /\ returned.result = Ok(cache[ETH_ADDRESS])

\* C2. Static symbol protection: in every reachable state each static symbol
\* is mapped by the symbol index to its registry address, and resolveSymbol
\* of the symbol returns that address.
C2_StaticSymbolProtection ==
  \A i \in 1..Len(STATIC_TOKEN_DATA) :
    LET data == STATIC_TOKEN_DATA[i]
    IN  /\ MapHas(symbolIndex, toUpperCase(data.symbol))
        /\ symbolIndex[toUpperCase(data.symbol)] = data.address
        /\ resolveSymbol(data.symbol) = Ok(data.address)
        /\ resolveSymbol(toLowerCase(data.symbol)) = Ok(data.address)

\* C2 witness: a dynamic record carrying the symbol "eth" is cached at
\* another address.
C2_Witness ==
  /\ MapHas(cache, LORDS_ADDRESS)
  /\ toUpperCase(cache[LORDS_ADDRESS].symbol) = "ETH"

\* C3. Only the built-in registry is trusted: the cached records with
\* isStatic = TRUE are exactly the registry records, and every record at
\* another address has isStatic = FALSE, whatever the response carried.
C3_OnlyRegistryIsStatic ==
  /\ {r \in getAllCached : r.isStatic} = StaticRecords
  /\ \A a \in DOMAIN cache : a \notin StaticAddresses => ~cache[a].isStatic

\* C3 witness: a response that carried isStatic = TRUE was cached, and so was
\* an on-chain result.
C3_Witness ==
  /\ MapHas(cache, normalizeAddress(ADDR_123))
  /\ cache[normalizeAddress(ADDR_123)].name = "Remote Token"
  /\ MapHas(cache, LORDS_ADDRESS)
  /\ cache[LORDS_ADDRESS].name = "Unknown Token"

\* The symbols that belong only to dynamic records: carried by a cached
\* non-static record and, whatever the letter case, by no registry record.
DynamicOnlySymbols ==
  {cache[a].symbol : a \in {x \in DOMAIN cache : ~cache[x].isStatic}}
    \ {sym \in {cache[a].symbol : a \in DOMAIN cache} :
         \E r \in StaticRecords : toUpperCase(r.symbol) = toUpperCase(sym)}

\* What holds of the cache right after clearDynamicCache, whatever it held.
ClearedToStatic ==
  /\ getAllCached' = StaticRecords
  /\ DOMAIN cache' = StaticAddresses
  /\ getCacheSize' = Len(STATIC_TOKENS)
  /\ \A r \in StaticRecords : resolveSymbol(r.symbol)' = Ok(r.address)

\* C4 as claimed. Cache exclusivity after clear: right after clearDynamicCache
\* the cache holds exactly the registry records, every static symbol resolves
\* to its address, and getTokenInfo of every symbol that belonged only to a
\* dynamic record returns absent.
C4_ClearLeavesStaticOnly_AsClaimed ==
  [][clearDynamicCache =>
       /\ ClearedToStatic
       /\ \A sym \in DynamicOnlySymbols : getTokenInfo(sym)' = Undefined]_vars

\* C4 as amended. Right after clearDynamicCache the cache holds exactly the
\* registry records, every static symbol resolves to its address, and
\* getTokenInfo of every symbol that is not 0x-prefixed and belonged only to a
\* dynamic record returns absent; a 0x-prefixed symbol is read as an address
\* (absent, a registry record, or InvalidAddress), and the truncated-address
\* symbol of an on-chain record makes getTokenInfo throw InvalidAddress.
C4_ClearLeavesStaticOnly ==
  [][clearDynamicCache =>
       /\ ClearedToStatic
       /\ \A sym \in DynamicOnlySymbols :
            /\ ~startsWith0x(sym) => getTokenInfo(sym)' = Undefined
            /\ startsWith0x(sym) =>
                 getTokenInfo(sym)' \in {Undefined, Throw("InvalidAddress", sym)}
                                        \cup {Ok(r) : r \in StaticRecords}
            /\ (\E a \in DOMAIN cache : cache[a].symbol = sym /\ cache[a].name = "Unknown Token")
                 => getTokenInfo(sym)' = Throw("InvalidAddress", sym)]_vars

\* C4 witness: the cache has just been cleared of a remote record whose symbol
\* was indexed and of an on-chain record.
C4_Witness ==
  /\ DOMAIN cache = StaticAddresses
  /\ calls = MaxCalls
  /\ returned.seq = MaxCalls
  /\ returned.trace = <<"fetchTokenByAddress", "rejected", "decimals", "resolved">>
  /\ DOMAIN symbolIndex = {toUpperCase(r.symbol) : r \in StaticRecords}
  /\ getTokenInfo("LORDS") = Undefined

\* The age of a cached record.
Age(token) == now - token.lastUpdated

\* The address inputs under which a cached dynamic record is looked up.
DynamicLookups ==
  {a \in AddressInputs :
     /\ normalizeAddress(a) # InvalidAddress
     /\ MapHas(cache, normalizeAddress(a))
     /\ ~cache[normalizeAddress(a)].isStatic}

C5_FetchIffOlderThanTtl ==
  \A a \in DynamicLookups :
    LET cached == cache[normalizeAddress(a)]
    IN  /\ Age(cached) > TOKEN_TTL_MS =>
             getTokenByAddressBegin("getTokenByAddress", a)
               = Await("getTokenByAddress", a, "fetchTokenByAddress", <<"fetchTokenByAddress">>)
        /\ Age(cached) <= TOKEN_TTL_MS =>
             getTokenByAddressBegin("getTokenByAddress", a)
               = Done("getTokenByAddress", a, Ok(cached), <<>>)

\* When the one fetch of getTokenByAddress resolves, the response is upserted
\* at the normalized address it carries: a static record there is kept, and
\* otherwise the record there becomes the response stamped with the current
\* time; an expired record at the address asked for is thereby replaced by a
\* fresh one when the response carries that address. No other entry changes.
C5_RefreshReplaces ==
  \A t \in Tasks, token \in RemoteTokens :
    (fetchTokenByAddressResolves(t, token) /\ tasks[t].op = "getTokenByAddress") =>
      LET normalized == normalizeAddress(token.address)
      IN  /\ returned'.trace = <<"fetchTokenByAddress", "resolved">>
          /\ MapHas(cache', normalized)
          /\ returned'.result = Ok(cache'[normalized])
          /\ cache'[normalized] =
               IF MapHas(cache, normalized) /\ cache[normalized].isStatic
               THEN cache[normalized]
               ELSE [token EXCEPT !.address = normalized, !.isStatic = FALSE,
                                  !.lastUpdated = now]
          /\ (/\ normalized = normalizeAddress(tasks[t].arg)
              /\ MapHas(cache, normalized)
              /\ isExpired(cache[normalized]))
               => /\ cache'[normalized].lastUpdated = now
                  /\ now' - cache'[normalized].lastUpdated <= TOKEN_TTL_MS
                  /\ ~cache'[normalized].isStatic
          /\ \A a \in DOMAIN cache \ {normalized} : MapHas(cache', a) /\ cache'[a] = cache[a]

AddressForms(a) == {s \in Strings : normalizeAddress(s) = a}

\* Synchronous lookups of a dynamic record: its data while younger than the
\* TTL, absent once older.
C6_SyncLookups ==
  \A a \in DOMAIN cache :
    ~cache[a].isStatic =>
      \A s \in AddressForms(a) :
        /\ Age(cache[a]) < TOKEN_TTL_MS =>
             /\ getDecimals(s) = Ok(cache[a].decimals)
             /\ startsWith0x(s) => getTokenInfo(s) = Ok(cache[a])
        /\ Age(cache[a]) > TOKEN_TTL_MS =>
             /\ getDecimals(s) = Undefined
             /\ startsWith0x(s) => getTokenInfo(s) = Undefined

\* A step leaves an expired record in place unless it is clearDynamicCache or a
\* remote response that refreshes the record; the passing of time changes
\* nothing in the cache, and only clearDynamicCache makes it smaller.
C6_NotPurged ==
  /\ \A a \in DOMAIN cache :
       (~cache[a].isStatic /\ isExpired(cache[a])) =>
         \/ MapHas(cache', a) /\ cache'[a] = cache[a]
         \/ clearDynamicCache
         \/ \E t \in Tasks, token \in RemoteTokens :
              /\ \/ fetchTokenByAddressResolves(t, token)
                 \/ fetchVerifiedTokenBySymbolResolves(t, token)
              /\ normalizeAddress(token.address) = a
              /\ MapHas(cache', a)
              /\ cache'[a].lastUpdated = now
  /\ \A step \in TickSteps : Tick(step) => cache' = cache /\ getCacheSize' = getCacheSize
  /\ clearDynamicCache \/ getCacheSize' >= getCacheSize

\* C6. Synchronous expiry semantics: getDecimals and getTokenInfo return a
\* dynamic record's data at every time < T + TTL and absent once
\* now - lastUpdated > TTL; the expired record stays in the cache until a
\* re-fetch refreshes it or clearDynamicCache removes it.
C6_SyncExpiry == []C6_SyncLookups /\ [][C6_NotPurged]_vars

\* C6 witness: an expired dynamic record is in the cache and the synchronous
\* lookups miss it.
C6_Witness ==
  /\ MapHas(cache, LORDS_ADDRESS)
  /\ isExpired(cache[LORDS_ADDRESS])
  /\ getDecimals(LORDS_SHORT) = Undefined
  /\ getTokenInfo(LORDS_SHORT) = Undefined
  /\ getCacheSize = Len(STATIC_TOKENS) + 1

\* The strings a caller may name the static record r by: its address in any
\* 0x-prefixed form, and its symbol in upper and in lower case.
StaticAddressForms(r) == {s \in AddressForms(r.address) : startsWith0x(s)}

StaticSymbolForms(r) == {r.symbol, toLowerCase(r.symbol)}

\* C7 as claimed. Static records never expire: at any clock value getDecimals,
\* getTokenInfo, getTokenByAddress, getTokenBySymbol, resolveSymbolAsync and
\* getDecimalsAsync return the static data of every static token, by whichever
\* string the token is named, and call neither the remote source nor the
\* chain.
C7_StaticNeverExpires_AsClaimed ==
  \A r \in StaticRecords :
    /\ \A a \in StaticAddressForms(r) :
         /\ getDecimals(a) = Ok(r.decimals)
         /\ getTokenInfo(a) = Ok(r)
         /\ getTokenByAddressBegin("getTokenByAddress", a)
              = Done("getTokenByAddress", a, Ok(r), <<>>)
         /\ getDecimalsAsyncBegin(a) = Done("getDecimalsAsync", a, Ok(r.decimals), <<>>)
         /\ resolveSymbolAsyncBegin(a) = Done("resolveSymbolAsync", a, Ok(r.address), <<>>)
    /\ \A sym \in StaticSymbolForms(r) :
         /\ getTokenInfo(sym) = Ok(r)
         /\ getTokenBySymbolBegin("getTokenBySymbol", sym)
              = Done("getTokenBySymbol", sym, Ok(r), <<>>)
         /\ resolveSymbolAsyncBegin(sym) = Done("resolveSymbolAsync", sym, Ok(r.address), <<>>)

\* C8 as claimed. Cache hit after fetch: right after getTokenByAddress(X) has
\* succeeded through the remote source for an address X that was absent from
\* the cache, getTokenByAddress(X) returns the cached record with no remote
\* call.
C8_CacheHitAfterFetch_AsClaimed ==
  [][\A t \in Tasks, token \in RemoteTokens, X \in AddressInputs :
       (/\ fetchTokenByAddressResolves(t, token)
        /\ tasks[t].op = "getTokenByAddress"
        /\ tasks[t].arg = X
        /\ ~MapHas(cache, normalizeAddress(X))
        /\ IsOk(returned'.result))
         => getTokenByAddressBegin("getTokenByAddress", X)'
              = Done("getTokenByAddress", X, returned'.result, <<>>)]_vars

\* The collaborator calls of one getDecimalsAsync, in order, from the first
\* call to its completion.
DecimalsTraces ==
  { <<>>,
    <<"fetchTokenByAddress", "resolved">>,
    <<"fetchTokenByAddress", "rejected">>,
    <<"fetchTokenByAddress", "rejected", "decimals", "resolved">>,
    <<"fetchTokenByAddress", "rejected", "decimals", "rejected">> }

\* C9. Fallback ordering for decimals: for a token absent from the cache
\* getDecimalsAsync calls the remote source first; the on-chain decimals call
\* is made only after the remote fetch has failed, and never after it has
\* succeeded; on a synchronous cache hit neither is called.
C9_FallbackOrdering ==
  /\ \A a \in AddressInputs :
       /\ (normalizeAddress(a) # InvalidAddress /\ ~MapHas(cache, normalizeAddress(a))) =>
            getDecimalsAsyncBegin(a)
              = Await("getDecimalsAsync", a, "fetchTokenByAddress", <<"fetchTokenByAddress">>)
       /\ IsOk(getDecimals(a)) =>
            getDecimalsAsyncBegin(a) = Done("getDecimalsAsync", a, getDecimals(a), <<>>)
  /\ \A t \in Tasks :
       tasks[t].op = "getDecimalsAsync" =>
         /\ tasks[t].pc = "fetchTokenByAddress" => tasks[t].trace = <<"fetchTokenByAddress">>
         /\ tasks[t].pc = "decimals" =>
              /\ tasks[t].trace = <<"fetchTokenByAddress", "rejected", "decimals">>
              /\ provider
  /\ returned.op = "getDecimalsAsync" =>
       /\ returned.trace \in DecimalsTraces
       /\ returned.trace = <<"fetchTokenByAddress", "resolved">> => IsOk(returned.result)
       /\ returned.trace = <<"fetchTokenByAddress", "rejected">> =>
            returned.result = Throw("NoProviderConfigured", returned.arg)

\* C9 witness: a getDecimalsAsync has completed through the on-chain call,
\* made after the remote fetch failed.
C9_Witness ==
  /\ returned.op = "getDecimalsAsync"
  /\ returned.arg = LORDS_ADDRESS
  /\ returned.trace = <<"fetchTokenByAddress", "rejected", "decimals", "resolved">>
  /\ returned.result = Ok(6)

\* C10. The on-chain path never overwrites: when the on-chain decimals result
\* arrives and the cache already holds an entry for that address, the cache and
\* the symbol index are left as they are.
C10_OnChainNeverOverwrites ==
  [][\A t \in Tasks, decimals \in OnChainDecimals :
       (decimalsResolves(t, decimals) /\ MapHas(cache, normalizeAddress(tasks[t].arg)))
         => cache' = cache /\ symbolIndex' = symbolIndex]_vars

\* C10 witness: a getDecimalsAsync has completed with the on-chain result 6
\* while the cache holds, for the same address, the record with 18 decimals
\* that a remote fetch wrote.
C10_Witness ==
  /\ returned.op = "getDecimalsAsync"
  /\ returned.trace = <<"fetchTokenByAddress", "rejected", "decimals", "resolved">>
  /\ returned.result = Ok(6)
  /\ MapHas(cache, normalizeAddress(returned.arg))
  /\ cache[normalizeAddress(returned.arg)].name = "Remote Token"
  /\ cache[normalizeAddress(returned.arg)].decimals = 18

\* The truncated-address display form of a normalized address.
TruncatedSymbol(normalized) ==
  Str(SubSeq(Chars[normalized], 1, 10) \o <<".", ".", ".">>
        \o SubSeq(Chars[normalized], Len(Chars[normalized]) - 5, Len(Chars[normalized])))

\* The minimal record of an on-chain result.
IsOnChainRecord(token, normalized, decimals) ==
  /\ token.address = normalized
  /\ ~token.isStatic
  /\ token.name = "Unknown Token"
  /\ token.symbol = TruncatedSymbol(normalized)
  /\ token.decimals = decimals

C11_OnChainResultArrives ==
  \A t \in Tasks, decimals \in OnChainDecimals, X \in AddressInputs :
    (decimalsResolves(t, decimals) /\ tasks[t].arg = X) =>
      /\ returned'.result = Ok(decimals)
      /\ returned'.trace = <<"fetchTokenByAddress", "rejected", "decimals", "resolved">>
      /\ symbolIndex' = symbolIndex
      /\ ~MapHas(cache, normalizeAddress(X)) =>
           /\ MapHas(cache', normalizeAddress(X))
           /\ IsOnChainRecord(cache'[normalizeAddress(X)], normalizeAddress(X), decimals)
           /\ cache'[normalizeAddress(X)].lastUpdated = now
           /\ getDecimals(X)' = Ok(decimals)
           /\ getDecimalsAsyncBegin(X)' = Done("getDecimalsAsync", X, Ok(decimals), <<>>)
           /\ \A a \in DOMAIN cache : MapHas(cache', a) /\ cache'[a] = cache[a]
      /\ MapHas(cache, normalizeAddress(X)) => cache' = cache

\* A cached on-chain record serves the lookups of its address up to the TTL.
C11_OnChainRecordServes ==
  \A X \in AddressInputs :
    (/\ normalizeAddress(X) # InvalidAddress
     /\ MapHas(cache, normalizeAddress(X))
     /\ cache[normalizeAddress(X)].name = "Unknown Token"
     /\ Age(cache[normalizeAddress(X)]) <= TOKEN_TTL_MS) =>
      /\ IsOnChainRecord(cache[normalizeAddress(X)], normalizeAddress(X),
                         cache[normalizeAddress(X)].decimals)
      /\ getDecimals(X) = Ok(cache[normalizeAddress(X)].decimals)
      /\ getDecimalsAsyncBegin(X)
           = Done("getDecimalsAsync", X, Ok(cache[normalizeAddress(X)].decimals), <<>>)

C12_NoProviderConfigured ==
  [][\A t \in Tasks, msg \in RemoteErrors :
       (fetchTokenByAddressRejects(t, msg) /\ tasks[t].op = "getDecimalsAsync" /\ ~provider) =>
         /\ returned'.op = "getDecimalsAsync"
         /\ returned'.arg = tasks[t].arg
         /\ returned'.result = Throw("NoProviderConfigured", tasks[t].arg)
         /\ returned'.trace = <<"fetchTokenByAddress", "rejected">>
         /\ tasks'[t].pc = "idle"
         /\ cache' = cache
         /\ symbolIndex' = symbolIndex]_vars

\* C12 witness: a getDecimalsAsync of an address absent from the cache has
\* failed for want of a provider.
C12_Witness ==
  /\ returned.op = "getDecimalsAsync"
  /\ returned.result = Throw("NoProviderConfigured", LORDS_ADDRESS)
  /\ ~provider
  /\ ~MapHas(cache, LORDS_ADDRESS)

\* The malformed 0x-prefixed strings among those the service handles.
MalformedAddresses ==
  {s \in Strings : startsWith0x(s) /\ normalizeAddress(s) = InvalidAddress}

\* C13 as claimed. InvalidAddress is always surfaced: for a malformed
\* 0x-prefixed string resolveSymbol, resolveSymbolAsync, getDecimals,
\* getTokenInfo, getTokenByAddress and getDecimalsAsync fail with the
\* normalizer's InvalidAddress error and call neither the remote source nor the
\* chain.
C13_InvalidAddressSurfaced_AsClaimed ==
  \A s \in MalformedAddresses :
    /\ resolveSymbol(s) = Throw("InvalidAddress", s)
    /\ getDecimals(s) = Throw("InvalidAddress", s)
    /\ getTokenInfo(s) = Throw("InvalidAddress", s)
    /\ getTokenByAddressBegin("getTokenByAddress", s)
         = Done("getTokenByAddress", s, Throw("InvalidAddress", s), <<>>)
    /\ getDecimalsAsyncBegin(s) = Done("getDecimalsAsync", s, Throw("InvalidAddress", s), <<>>)
    /\ resolveSymbolAsyncBegin(s)
         = Done("resolveSymbolAsync", s, Throw("InvalidAddress", s), <<>>)

\* C14. Remote failure is surfaced and leaves state unchanged: when the remote
\* call errors inside getTokenByAddress (getTokenBySymbol), the operation fails
\* with the error that holds the address (symbol) as it was passed and the
\* message of the underlying error, after that one remote call and no other,
\* and neither the start of the operation nor its failure changes the cache or
\* the symbol index.
C14_RemoteFailureSurfaced ==
  [][/\ \A t \in Tasks, msg \in RemoteErrors :
          (fetchTokenByAddressRejects(t, msg) /\ tasks[t].op = "getTokenByAddress") =>
            /\ returned'.op = "getTokenByAddress"
            /\ returned'.result = RemoteFetchFailed(tasks[t].arg, msg)
            /\ returned'.trace = <<"fetchTokenByAddress", "rejected">>
            /\ tasks'[t].pc = "idle"
            /\ cache' = cache
            /\ symbolIndex' = symbolIndex
     /\ \A t \in Tasks, msg \in RemoteErrors :
          (fetchVerifiedTokenBySymbolRejects(t, msg) /\ tasks[t].op = "getTokenBySymbol") =>
            /\ returned'.op = "getTokenBySymbol"
            /\ returned'.result = RemoteFetchFailed(tasks[t].arg, msg)
            /\ returned'.trace = <<"fetchVerifiedTokenBySymbol", "rejected">>
            /\ tasks'[t].pc = "idle"
            /\ cache' = cache
            /\ symbolIndex' = symbolIndex
     /\ \A t \in Tasks :
          (\/ \E a \in AddressInputs : getTokenByAddress(t, a)
           \/ \E sym \in SymbolInputs : getTokenBySymbol(t, sym))
            => cache' = cache /\ symbolIndex' = symbolIndex]_vars

\* C14 witness: a getTokenByAddress and then a getTokenBySymbol have failed
\* with the remote source's error.
C14_Witness ==
  /\ returned.seq = 2
  /\ returned.op = "getTokenBySymbol"
  /\ returned.result = RemoteFetchFailed("LORDS", "Not found")
  /\ \A t \in Tasks : tasks[t].pc = "idle"
  /\ DOMAIN cache = StaticAddresses

\* The first two cases of resolveSymbol: a key of the symbol index, and else a
\* valid 0x-prefixed address.
C15_IndexedThenAddress(s) ==
  /\ MapHas(symbolIndex, toUpperCase(s)) => resolveSymbol(s) = Ok(symbolIndex[toUpperCase(s)])
  /\ (/\ ~MapHas(symbolIndex, toUpperCase(s))
      /\ startsWith0x(s)
      /\ normalizeAddress(s) # InvalidAddress)
       => resolveSymbol(s) = Ok(normalizeAddress(s))

\* C15 as claimed. resolveSymbol decision order: the indexed address when the
\* uppercased input is a key of the symbol index; otherwise the normalized form
\* of a valid 0x-prefixed address; otherwise the failure "Unknown token"
\* echoing the input.
C15_ResolveSymbolOrder_AsClaimed ==
  \A s \in Strings :
    /\ C15_IndexedThenAddress(s)
    /\ (/\ ~MapHas(symbolIndex, toUpperCase(s))
        /\ ~(startsWith0x(s) /\ normalizeAddress(s) # InvalidAddress))
         => resolveSymbol(s) = Throw("UnknownToken", s)

\* C15 as amended. resolveSymbol decision order: the indexed address when the
\* uppercased input is a key of the symbol index; otherwise, for a 0x-prefixed
\* input, the normalized form when it is a valid address, cached or not, and
\* the normalizer's InvalidAddress failure when it is not; otherwise the
\* failure "Unknown token" echoing the input.
C15_ResolveSymbolOrder ==
  \A s \in Strings :
    /\ C15_IndexedThenAddress(s)
    /\ (/\ ~MapHas(symbolIndex, toUpperCase(s))
        /\ startsWith0x(s)
        /\ normalizeAddress(s) = InvalidAddress)
         => resolveSymbol(s) = Throw("InvalidAddress", s)
    /\ (~MapHas(symbolIndex, toUpperCase(s)) /\ ~startsWith0x(s))
         => resolveSymbol(s) = Throw("UnknownToken", s)

\* C15 witness: a 0x-prefixed string is a key of the symbol index and resolves
\* to the indexed address, while an address that is not cached passes through.
C15_Witness ==
  /\ MapHas(symbolIndex, toUpperCase(ETH_SHORT))
  /\ resolveSymbol(ETH_SHORT) = Ok(LORDS_ADDRESS)
  /\ ~MapHas(cache, normalizeAddress(ADDR_123))
  /\ resolveSymbol(ADDR_123) = Ok(normalizeAddress(ADDR_123))
  /\ resolveSymbol("ZEND") = Throw("UnknownToken", "ZEND")

\* C16 as claimed. Address-form input is always a pass-through: in every
\* reachable state resolveSymbol of a valid 0x-prefixed address string is its
\* normalized form.
C16_AddressPassThrough_AsClaimed ==
  \A a \in Strings :
    (startsWith0x(a) /\ normalizeAddress(a) # InvalidAddress)
      => resolveSymbol(a) = Ok(normalizeAddress(a))

\* The letter-case variants of the symbol with the uppercased form key.
CaseVariants(key) == {s \in Strings : toUpperCase(s) = key}

\* C17 as claimed. Case-insensitive symbol resolution: for every symbol in the
\* symbol index resolveSymbol, getTokenInfo and getTokenBySymbol give the same
\* result for every letter-case variant of the symbol.
C17_CaseInsensitive_AsClaimed ==
  \A key \in DOMAIN symbolIndex :
    \A v, w \in CaseVariants(key) :
      /\ resolveSymbol(v) = resolveSymbol(w)
      /\ getTokenInfo(v) = getTokenInfo(w)
      /\ getTokenBySymbolBegin("getTokenBySymbol", v).pc
           = getTokenBySymbolBegin("getTokenBySymbol", w).pc
      /\ getTokenBySymbolBegin("getTokenBySymbol", v).result
           = getTokenBySymbolBegin("getTokenBySymbol", w).result

\* How resolveSymbolAsync starts: the synchronous result with no remote call
\* when resolveSymbol succeeds; else the fetch by symbol for an input that is not
\* 0x-prefixed, and UnknownToken with no remote call for one that is.
C18_ResolveSymbolAsyncStarts ==
  \A s \in Strings :
    LET resolved == resolveSymbol(s)
        begun == resolveSymbolAsyncBegin(s)
    IN  IF IsOk(resolved)
        THEN begun = Done("resolveSymbolAsync", s, resolved, <<>>)
        ELSE IF ~startsWith0x(s)
        THEN begun = Await("resolveSymbolAsync", s, "fetchVerifiedTokenBySymbol",
                           <<"fetchVerifiedTokenBySymbol">>)
        ELSE begun = Done("resolveSymbolAsync", s, Throw("UnknownToken", s), <<>>)

\* How the fallback of resolveSymbolAsync ends: with the address of the record
\* getTokenBySymbol returns, or with its failure.
C18_ResolveSymbolAsyncFetched ==
  /\ \A t \in Tasks, token \in RemoteTokens :
       (fetchVerifiedTokenBySymbolResolves(t, token) /\ tasks[t].op = "resolveSymbolAsync") =>
         /\ returned'.op = "resolveSymbolAsync"
         /\ returned'.trace = <<"fetchVerifiedTokenBySymbol", "resolved">>
         /\ returned'.result = Ok(normalizeAddress(token.address))
         /\ MapHas(cache', normalizeAddress(token.address))
  /\ \A t \in Tasks, msg \in RemoteErrors :
       (fetchVerifiedTokenBySymbolRejects(t, msg) /\ tasks[t].op = "resolveSymbolAsync") =>
         /\ returned'.trace = <<"fetchVerifiedTokenBySymbol", "rejected">>
         /\ returned'.result = RemoteFetchFailed(tasks[t].arg, msg)

\* C18. resolveSymbolAsync attempts synchronous resolution first and returns
\* its result with no remote call when it succeeds; when it fails, an input
\* that is not 0x-prefixed goes to getTokenBySymbol and the fetched record's
\* address is returned, and a 0x-prefixed input fails with UnknownToken with no
\* remote call.
C18_ResolveSymbolAsync ==
  []C18_ResolveSymbolAsyncStarts /\ [][C18_ResolveSymbolAsyncFetched]_vars

\* C18 witness: resolveSymbolAsync of an unknown symbol has returned the
\* address of the record fetched by symbol.
C18_Witness ==
  /\ returned.op = "resolveSymbolAsync"
  /\ returned.arg = "LORDS"
  /\ returned.trace = <<"fetchVerifiedTokenBySymbol", "resolved">>
  /\ returned.result = Ok(LORDS_ADDRESS)
  /\ resolveSymbol("LORDS") = Ok(LORDS_ADDRESS)

\* The symbol index maps the uppercased symbol to a cached, non-expired record.
SymbolHit(symbol) ==
  /\ MapHas(symbolIndex, toUpperCase(symbol))
  /\ MapHas(cache, symbolIndex[toUpperCase(symbol)])
  /\ ~isExpired(cache[symbolIndex[toUpperCase(symbol)]])

\* How getTokenBySymbol starts, and the collaborator calls it makes: none on a
\* hit, and else one call of fetchVerifiedTokenBySymbol and no other.
C19_GetTokenBySymbolCalls ==
  /\ \A symbol \in Strings :
       /\ SymbolHit(symbol) =>
            getTokenBySymbolBegin("getTokenBySymbol", symbol)
              = Done("getTokenBySymbol", symbol, Ok(cache[symbolIndex[toUpperCase(symbol)]]), <<>>)
       /\ ~SymbolHit(symbol) =>
            getTokenBySymbolBegin("getTokenBySymbol", symbol)
              = Await("getTokenBySymbol", symbol, "fetchVerifiedTokenBySymbol",
                      <<"fetchVerifiedTokenBySymbol">>)
  /\ \A t \in Tasks :
       tasks[t].op = "getTokenBySymbol" =>
         /\ tasks[t].pc = "fetchVerifiedTokenBySymbol"
         /\ tasks[t].trace = <<"fetchVerifiedTokenBySymbol">>
  /\ returned.op = "getTokenBySymbol" =>
       returned.trace \in { <<>>, <<"fetchVerifiedTokenBySymbol", "resolved">>,
                            <<"fetchVerifiedTokenBySymbol", "rejected">> }

\* When the fetch resolves, the response is upserted as a dynamic record at its
\* normalized address (a static record there is kept) and the record now
\* cached there is returned.
C19_GetTokenBySymbolUpserts ==
  \A t \in Tasks, token \in RemoteTokens :
    (fetchVerifiedTokenBySymbolResolves(t, token) /\ tasks[t].op = "getTokenBySymbol") =>
      LET normalized == normalizeAddress(token.address)
      IN  /\ returned'.op = "getTokenBySymbol"
          /\ returned'.trace = <<"fetchVerifiedTokenBySymbol", "resolved">>
          /\ MapHas(cache', normalized)
          /\ returned'.result = Ok(cache'[normalized])
          /\ cache'[normalized] =
               IF MapHas(cache, normalized) /\ cache[normalized].isStatic
               THEN cache[normalized]
               ELSE [token EXCEPT !.address = normalized, !.isStatic = FALSE,
                                  !.lastUpdated = now]

\* C19. getTokenBySymbol returns the record the symbol index maps the
\* uppercased symbol to, cached and not expired, with zero remote calls;
\* otherwise it makes exactly one call, to the verified-token-by-symbol
\* endpoint and never to the by-address endpoint, and on success the result is
\* upserted as a dynamic record and returned.
C19_GetTokenBySymbol == []C19_GetTokenBySymbolCalls /\ [][C19_GetTokenBySymbolUpserts]_vars

\* C19 witness: a getTokenBySymbol has fetched an unknown symbol and returned
\* the dynamic record now cached.
C19_Witness ==
  /\ returned.op = "getTokenBySymbol"
  /\ returned.arg = "LORDS"
  /\ returned.trace = <<"fetchVerifiedTokenBySymbol", "resolved">>
  /\ MapHas(cache, LORDS_ADDRESS)
  /\ returned.result = Ok(cache[LORDS_ADDRESS])
  /\ ~cache[LORDS_ADDRESS].isStatic
  /\ SymbolHit("lords")

\* The registry record at a static address.
StaticRecordAt(address) == CHOOSE r \in StaticRecords : r.address = address

\* What an operation returns of the record it got.
ResultFor(op, token) ==
  IF op = "getDecimalsAsync" THEN Ok(token.decimals)
  ELSE IF op = "resolveSymbolAsync" THEN Ok(token.address)
  ELSE Ok(token)

\* C20. Writes onto a static address are absorbed, never an error: when a
\* remote fetch, by address or by symbol, returns a record whose normalized
\* address is a static registry address, the operation does not throw, returns
\* the existing static record unchanged, and nothing is written to the cache
\* or to the symbol index.
C20_StaticWriteAbsorbed ==
  [][\A t \in Tasks, token \in RemoteTokens :
       (/\ \/ fetchTokenByAddressResolves(t, token)
           \/ fetchVerifiedTokenBySymbolResolves(t, token)
        /\ normalizeAddress(token.address) \in StaticAddresses) =>
         /\ returned'.op = tasks[t].op
         /\ returned'.arg = tasks[t].arg
         /\ returned'.result
              = ResultFor(tasks[t].op, StaticRecordAt(normalizeAddress(token.address)))
         /\ cache' = cache
         /\ symbolIndex' = symbolIndex]_vars

\* C20 witness: a getTokenBySymbol of an unknown symbol was answered with a
\* record at ETH's address and has returned the static ETH record.
C20_Witness ==
  /\ returned.op = "getTokenBySymbol"
  /\ returned.arg = "LORDS"
  /\ returned.trace = <<"fetchVerifiedTokenBySymbol", "resolved">>
  /\ returned.result = Ok(StaticRecordAt(ETH_ADDRESS))
  /\ cache[ETH_ADDRESS] = StaticRecordAt(ETH_ADDRESS)

\* C21: entries are removed only by an explicit clear. The cache always holds
\* the addresses of the static registry, and in every step that is not
\* clearDynamicCache no address leaves the cache and no symbol leaves the
\* symbol index. (resolveSymbol, getDecimals and getTokenInfo are operators of
\* the state: they have no step at all.)
C21_RemovedOnlyByClear ==
  /\ [](StaticAddresses \subseteq DOMAIN cache)
  /\ [][\/ clearDynamicCache
        \/ /\ DOMAIN cache \subseteq DOMAIN cache'
           /\ DOMAIN symbolIndex \subseteq DOMAIN symbolIndex']_vars

\* C21 witness: a dynamic record has expired, a later lookup of it has failed
\* at the remote source, and the record and its symbol are still there.
C21_Witness ==
  /\ MapHas(cache, LORDS_ADDRESS)
  /\ isExpired(cache[LORDS_ADDRESS])
  /\ MapHas(symbolIndex, "LORDS")
  /\ returned.seq = 2
  /\ returned.arg = LORDS_ADDRESS
  /\ returned.trace = <<"fetchTokenByAddress", "rejected">>
  /\ IsThrow(returned.result)

\* C22: dynamic against dynamic is last-writer-wins. When a remote answer for
\* a non-static address is written, the write is one step; after it the cache
\* holds for that address exactly the record of this answer (every field of
\* the answer, the normalized address, isStatic false, the time of the write),
\* the symbol of the answer points to it unless a static record holds that
\* symbol, and no other record has changed.
C22_LastWriterWins ==
  [][\A t \in Tasks, token \in RemoteTokens :
       (/\ \/ fetchTokenByAddressResolves(t, token)
           \/ fetchVerifiedTokenBySymbolResolves(t, token)
        /\ normalizeAddress(token.address) # InvalidAddress
        /\ normalizeAddress(token.address) \notin StaticAddresses) =>
         LET normalized == normalizeAddress(token.address)
             upperSymbol == toUpperCase(token.symbol)
         IN  /\ MapHas(cache', normalized)
             /\ cache'[normalized] = [token EXCEPT !.address = normalized,
                                                   !.isStatic = FALSE,
                                                   !.lastUpdated = now]
             /\ DOMAIN cache' = DOMAIN cache \cup {normalized}
             /\ \A a \in DOMAIN cache \ {normalized} : cache'[a] = cache[a]
             /\ MapHas(symbolIndex', upperSymbol)
             /\ symbolIndex'[upperSymbol]
                  = IF MapHas(symbolIndex, upperSymbol)
                       /\ symbolIndex[upperSymbol] \in StaticAddresses
                    THEN symbolIndex[upperSymbol]
                    ELSE normalized]_vars

\* C22 witness: two lookups were in flight together and both were answered
\* for the same non-static address, first as "lords" and then with another
\* symbol and other decimals; the cache holds the second answer whole.
C22_Witness ==
  /\ returned.seq = 2
  /\ returned.task = 2
  /\ ticks = 0
  /\ MapHas(symbolIndex, "LORDS")
  /\ symbolIndex["LORDS"] = LORDS_ADDRESS
  /\ MapHas(cache, LORDS_ADDRESS)
  /\ cache[LORDS_ADDRESS].symbol = "eth"
  /\ cache[LORDS_ADDRESS].decimals = 8
  /\ returned.result = Ok(cache[LORDS_ADDRESS])

\* The hex digits of an address string after its optional 0x or 0X.
HexBody(x) ==
  LET cs == Chars[x]
  IN  IF Len(cs) >= 2 /\ cs[1] = "0" /\ cs[2] \in {"x", "X"}
      THEN [i \in 1..(Len(cs) - 2) |-> cs[i + 2]]
      ELSE cs

\* x is a hexadecimal numeral.
IsHexNumeral(x) ==
  /\ HexBody(x) # <<>>
  /\ \A i \in 1..Len(HexBody(x)) : HexBody(x)[i] \in HexDigits

\* The significant digits of a hexadecimal numeral, in lower case: two
\* numerals spell the same address exactly when these agree.
RECURSIVE Significant(_)
Significant(cs) ==
  IF cs = <<>> THEN <<>>
  ELSE IF Head(cs) = "0" THEN Significant(Tail(cs))
  ELSE lowerChars(cs)

\* x spells an address of the field: a hexadecimal numeral of at most 64
\* significant digits whose value is below the bound of the address range.
IsValidAddress(x) ==
  /\ IsHexNumeral(x)
  /\ Len(Significant(HexBody(x))) <= ADDRESS_HEX_LENGTH
  /\ HexLess([i \in 1..(ADDRESS_HEX_LENGTH - Len(Significant(HexBody(x)))) |-> "0"]
               \o Significant(HexBody(x)),
             ADDR_BOUND_HEX)

\* What C23 says of each string x: the verdict on x, computed once.
NormalizationLaw ==
  [x \in Strings |->
     LET n == normalizeAddress(x)
     IN  IF ~IsValidAddress(x) THEN n = InvalidAddress
         ELSE /\ n # InvalidAddress
              /\ Len(Chars[n]) = ADDRESS_HEX_LENGTH + 2
              /\ Chars[n][1] = "0"
              /\ Chars[n][2] = "x"
              /\ \A i \in 3..Len(Chars[n]) : \E k \in 1..Len(HexLower) : HexLower[k] = Chars[n][i]
              /\ normalizeAddress(n) = n
              /\ \A y \in Strings :
                   (IsValidAddress(y) /\ Significant(HexBody(y)) = Significant(HexBody(x)))
                     => normalizeAddress(y) = n]

\* C23: normalization is idempotent. For every valid address string x,
\* normalizeAddress(x) is 0x and 64 lowercase hex digits, normalizing it again
\* gives the same string, and every other spelling of the same address (short,
\* zero-padded, mixed case) normalizes to it; a string that is no hexadecimal
\* numeral, or is past the field width, fails with InvalidAddress. So every
\* key of the cache, and every address a lookup returns, normalizes to itself.
C23_NormalizeIdempotent ==
  /\ \A x \in Strings : NormalizationLaw[x]
  /\ \A a \in DOMAIN cache : normalizeAddress(a) = a /\ cache[a].address = a
  /\ \A s \in DOMAIN symbolIndex : normalizeAddress(symbolIndex[s]) = symbolIndex[s]

\* C23 witness: a token asked for by a short upper-case spelling of its
\* address came back under the padded lower-case key, a short mixed-case
\* spelling from the remote source is cached under its padded lower-case key,
\* and the spellings past the range and past the width are refused.
C23_Witness ==
  /\ returned.op = "getTokenByAddress"
  /\ returned.arg = ETH_SHORT
  /\ returned.result = Ok(cache[ETH_ADDRESS])
  /\ MapHas(cache, LORDS_ADDRESS)
  /\ normalizeAddress(LORDS_SHORT) = LORDS_ADDRESS
  /\ normalizeAddress(LORDS_ADDRESS) = LORDS_ADDRESS
  /\ normalizeAddress(OVER_RANGE) = InvalidAddress
  /\ normalizeAddress(OVER_WIDTH) = InvalidAddress
  /\ normalizeAddress(MALFORMED) = InvalidAddress

\* The collaborator calls a request has made so far.
ToolCalls == {tool.trace[i] : i \in 1..Len(tool.trace)}

\* C28: the unbonding status is a total three-way classification. When
\* starknet_get_unbonding_status determines the status from the position it
\* read and the time now, the status is "none" exactly when unpoolAmount = 0,
\* "cooldown" exactly when unpoolAmount > 0 and unpoolTime is defined and later
\* than now, and "ready" exactly in every other case.
C28_UnbondingStatus ==
  [][\A decimals \in StakingDecimals :
       (contractDecimalsResolves(decimals) /\ tool.pc = "unbondingStatus") =>
         LET status == tool'.result[2].status
             unpoolAmount == tool.userInfo.unpoolAmount
             unpoolTime == tool.userInfo.unpoolTime
             later == unpoolTime # NoUnpoolTime /\ unpoolTime > now
         IN  /\ tool'.pc = "done"
             /\ IsOk(tool'.result)
             /\ status \in {"none", "cooldown", "ready"}
             /\ (status = "none") <=> (unpoolAmount = 0)
             /\ (status = "cooldown") <=> (unpoolAmount > 0 /\ later)
             /\ (status = "ready") <=> (unpoolAmount > 0 /\ ~later)]_vars

\* C28 witness: an unstake whose cooldown ends at this very millisecond is
\* reported ready.
C28_Witness ==
  /\ tool.name = "starknet_get_unbonding_status"
  /\ tool.pc = "done"
  /\ IsOk(tool.result)
  /\ tool.result[2].status = "ready"
  /\ tool.userInfo.unpoolAmount > 0
  /\ tool.userInfo.unpoolTime = now
  /\ ticks > 0

\* C29: only one unstake at a time. starknet_initiate_unstake builds calls
\* and submits a transaction only when a pool was found for the token and the
\* position it read has no active unstake and covers the requested amount;
\* when the position has an active unstake, or less staked than requested,
\* the request ends in an error with no calls built and nothing submitted, and
\* the active unstake is the error reported when both hold.
C29_OneUnstakeAtATime ==
  /\ [](tool.name = "starknet_initiate_unstake" =>
          /\ (ToolCalls \cap {"initiateUnstakeToCalls", "execute", "waitForTransaction"} # {}) =>
               /\ tool.pool # ""
               /\ tool.userInfo.unpoolAmount = 0
               /\ tool.userInfo.amount >= tool.amountWei
          /\ (tool.pc = "done" /\ IsOk(tool.result)) => "execute" \in ToolCalls
          /\ (tool.pc = "done" /\ IsThrow(tool.result)
                /\ tool.result[2] = "InsufficientStakedBalance") =>
               /\ tool.userInfo.unpoolAmount = 0
               /\ tool.userInfo.amount < tool.amountWei
          /\ (tool.pc = "done" /\ IsThrow(tool.result) /\ tool.result[2] = "ActiveUnstake") =>
               tool.userInfo.unpoolAmount > 0)
  /\ [][\A userInfo \in UserStakingInfos :
          (/\ getUserStakingInfoResolves(userInfo)
           /\ tool.name = "starknet_initiate_unstake"
           /\ (userInfo.unpoolAmount > 0 \/ userInfo.amount < tool.amountWei)) =>
            /\ tool'.pc = IF userInfo.unpoolAmount > 0 THEN "activeUnstake"
                          ELSE "insufficientStaked"
            /\ tool'.trace = Append(tool.trace, "decimals")]_vars
  /\ [][(tool.pc \in {"activeUnstake", "insufficientStaked"} /\ tool' # tool) =>
          /\ tool'.pc = "done"
          /\ IsThrow(tool'.result)
          /\ tool'.trace = tool.trace]_vars

\* C29 witness: a request to unstake more than is staked, from a position
\* with an active unstake, was refused for the active unstake, with no calls
\* built and nothing submitted.
C29_Witness ==
  /\ tool.name = "starknet_initiate_unstake"
  /\ tool.pc = "done"
  /\ tool.result[2] = "ActiveUnstake"
  /\ tool.userInfo.unpoolAmount > 0
  /\ tool.userInfo.amount < tool.amountWei
  /\ tool.pool = "strk-pool"
  /\ ToolCalls \cap {"initiateUnstakeToCalls", "execute"} = {}

\* cs without its trailing zeros.
RECURSIVE WithoutTrailingZeros(_)
WithoutTrailingZeros(cs) ==
  IF cs = <<>> \/ cs[Len(cs)] # "0" THEN cs
  ELSE WithoutTrailingZeros(SubSeq(cs, 1, Len(cs) - 1))

\* The decimal numeral of amount / 10^decimals: the whole part, then a point
\* and the fractional digits when there are any.
DecimalNumeral(amount, decimals) ==
  LET whole == toString(amount \div Pow10(decimals))
      fraction == WithoutTrailingZeros(padStart(toString(amount % Pow10(decimals)), decimals))
  IN  IF fraction = <<>> \/ decimals = 0 THEN whole ELSE whole \o <<".">> \o fraction

\* C30 as claimed. formatAmount renders amount / 10^decimals for every
\* amount >= 0 and every decimals >= 0: the unbonding amount a status
\* request reports is the decimal numeral of the raw amount it read over 10 to
\* the decimals it read, without trailing fractional zeros or a trailing point.
C30_FormatAmount_AsClaimed ==
  (tool.name = "starknet_get_unbonding_status" /\ tool.pc = "done" /\ IsOk(tool.result)) =>
    tool.result[2].unbondingAmount = DecimalNumeral(tool.userInfo.unpoolAmount, tool.decimals)

\* C24 as claimed. Resolving the token list of a balance request is a pure
\* per-element mapping: whenever the list passes the size checks and each of
\* its tokens resolves, duplicates or not, the request goes on with one
\* address per token, in the order given; and the response then has one entry
\* per token, in that order, each with the token string of the caller next to
\* its address.
C24_OrderAndDuplicates_AsClaimed ==
  /\ [][\A tokens \in TokenLists :
          (/\ tool'.tokens = tokens
           /\ getBalancesResult(tokens)
           /\ passesSizeChecks(tokens)
           /\ \A i \in 1..Len(tokens) : IsOk(resolveSymbol(tokens[i])')) =>
            /\ tool'.pc = "balanceChecker"
            /\ tool'.tokens = tokens
            /\ tool'.tokenAddresses = [i \in 1..Len(tokens) |-> resolveSymbol(tokens[i])'[2]]]_vars
  /\ []((tool.name = "starknet_get_balances" /\ tool.pc = "done" /\ IsOk(tool.result)) =>
          /\ Len(tool.result[2].balances) = Len(tool.tokens)
          /\ \A i \in 1..Len(tool.tokens) :
               /\ tool.result[2].balances[i].token = tool.tokens[i]
               /\ tool.result[2].balances[i].tokenAddress = tool.tokenAddresses[i])

\* C25: balance fetch fallback. The primary path is tried first; when it
\* answers, the response says "balance_checker" and the batch-RPC path was
\* never called; when it fails, a warning is logged, the batch-RPC path is
\* called and its answer is reported as "batch_rpc"; a fetch fails only after
\* both paths have failed.
C25_BalanceFetchFallback ==
  /\ [](tool.name = "starknet_get_balances" =>
          /\ tool.trace \in {<<>>, <<"balanceChecker">>, <<"balanceChecker", "warn", "batchRpc">>}
          /\ (tool.pc = "done" /\ IsOk(tool.result)) =>
               /\ tool.result[2].method \in {"balance_checker", "batch_rpc"}
               /\ (tool.result[2].method = "balance_checker") <=> (tool.trace = <<"balanceChecker">>)
               /\ (tool.result[2].method = "batch_rpc")
                    <=> (tool.trace = <<"balanceChecker", "warn", "batchRpc">>)
          /\ (tool.pc = "done" /\ IsThrow(tool.result) /\ tool.trace # <<>>) =>
               tool.trace = <<"balanceChecker", "warn", "batchRpc">>)
  /\ [][(tool.pc = "balanceChecker" /\ tool' # tool) =>
          \/ /\ tool'.pc = "done"
             /\ IsOk(tool'.result)
             /\ tool'.trace = tool.trace
          \/ /\ tool'.pc = "batchRpc"
             /\ tool'.trace = tool.trace \o <<"warn", "batchRpc">>]_vars

\* C25 witness: the primary path failed, a warning was logged and the
\* batch-RPC path served the balances of a two-token request.
C25_Witness ==
  /\ tool.name = "starknet_get_balances"
  /\ tool.pc = "done"
  /\ IsOk(tool.result)
  /\ tool.result[2].method = "batch_rpc"
  /\ tool.trace = <<"balanceChecker", "warn", "batchRpc">>
  /\ Len(tool.result[2].balances) = 2

\* C26: token list validation. A request with no list or an empty one fails
\* with "At least one token is required", one with more than
\* MAX_BATCH_TOKENS (200) tokens with "Maximum 200 tokens per request", both
\* before any token is resolved (the shared service is not even reached); a
\* token that does not resolve fails the whole request with its error; and
\* when validation succeeds the i-th address is resolveSymbol of the i-th
\* token.
C26_TokenListValidation ==
  [][\A tokens \in TokenLists :
       (tool'.tokens = tokens /\ getBalancesResult(tokens)) =>
         IF tokens = Undefined \/ Len(tokens) = 0
         THEN /\ tool'.pc = "done"
              /\ tool'.result = Throw("At least one token is required", 0)
              /\ UNCHANGED <<service, cache, symbolIndex>>
         ELSE IF Len(tokens) > MAX_BATCH_TOKENS
         THEN /\ tool'.pc = "done"
              /\ tool'.result = Throw("Maximum tokens per request", 200)
              /\ UNCHANGED <<service, cache, symbolIndex>>
         ELSE /\ (\E i \in 1..Len(tokens) : IsThrow(resolveSymbol(tokens[i])')) =>
                   /\ tool'.pc = "done"
                   /\ IsThrow(tool'.result)
                   /\ \E i \in 1..Len(tokens) : tool'.result = resolveSymbol(tokens[i])'
              /\ tool'.pc # "done" =>
                   /\ tool'.trace = <<"balanceChecker">>
                   /\ Len(tool'.tokenAddresses) = Len(tokens)
                   /\ \A i \in 1..Len(tokens) :
                        resolveSymbol(tokens[i])' = Ok(tool'.tokenAddresses[i])]_vars

\* C26 witness: a request for 201 tokens, none of them well-formed, was
\* refused for its length, and no TokenService was constructed for it.
C26_Witness ==
  /\ tool.name = "starknet_get_balances"
  /\ tool.pc = "done"
  /\ tool.tokens # Undefined
  /\ Len(tool.tokens) = MAX_BATCH_TOKENS + 1
  /\ tool.result = Throw("Maximum tokens per request", 200)
  /\ service.constructed = 0

\* The maps of a TokenService that holds the static registry only.
StaticOnly ==
  /\ DOMAIN cache = StaticAddresses
  /\ \A a \in DOMAIN cache : cache[a] \in StaticRecords /\ cache[a].address = a
  /\ DOMAIN symbolIndex = {toUpperCase(r.symbol) : r \in StaticRecords}

\* C27: process-wide singleton. Between two resets every getTokenService
\* call returns the same instance: the calls since the last reset have
\* returned at most one instance, the one in the slot; a call that finds an
\* instance returns it whatever base URL it is given and leaves its cache as
\* it is; the instance in the slot changes only through a reset; and a call
\* that finds the slot empty constructs a new instance, never seen before,
\* whose cache holds the static registry and nothing else.
C27_Singleton ==
  /\ [](/\ Cardinality(service.issued) <= 1
        /\ service.instance # 0 => service.issued \subseteq {service.instance}
        /\ service.instance = 0 => service.issued = {})
  /\ [][/\ (service.instance # 0 /\ service'.instance # 0) =>
             /\ service'.instance = service.instance
             /\ service'.baseUrl = service.baseUrl
        /\ \A baseUrl \in BaseUrls :
             getTokenServiceCall(baseUrl) =>
               IF service.instance # 0
               THEN /\ service'.issued = {service.instance}
                    /\ UNCHANGED <<cache, symbolIndex>>
               ELSE /\ service'.instance = service.constructed + 1
                    /\ service'.issued = {service'.instance}
                    /\ StaticOnly'
        /\ resetTokenService => service'.instance = 0]_vars

\* C27 witness: after a reset a second instance was constructed, a caller
\* passing a base URL got that same instance, and a lookup made through it is
\* in the shared cache.
C27_Witness ==
  /\ service.instance = 2
  /\ service.constructed = 2
  /\ service.baseUrl = ""
  /\ service.issued = {2}
  /\ MapHas(cache, LORDS_ADDRESS)

\* C31 as claimed. getTokenByAddress answers for the address asked: whenever
\* getTokenByAddress(X) succeeds, from the cache or through the remote
\* source, the returned record's address is normalizeAddress(X) and the cache
\* holds a record at normalizeAddress(X) that has not expired, whatever
\* address the remote response carries.
C31_AnswersForAddressAsked_AsClaimed ==
  [][\A X \in AddressInputs :
       (/\ returned'.seq # returned.seq
        /\ returned'.op = "getTokenByAddress"
        /\ returned'.arg = X
        /\ IsOk(returned'.result))
         => /\ returned'.result[2].address = normalizeAddress(X)
            /\ MapHas(cache', normalizeAddress(X))
            /\ (~isExpired(cache[normalizeAddress(X)]))']_vars

\* C32. Symbol index points into the cache: in every reachable state every
\* address stored in the symbol index is a key of the cache, also after
\* clearDynamicCache and after on-chain records have been cached.
C32_IndexPointsIntoCache ==
  \A symbol \in DOMAIN symbolIndex : MapHas(cache, symbolIndex[symbol])

\* The index holds a symbol of a dynamic record next to a record cached from
\* the chain, which has no index entry.
C32_Witness ==
  /\ \E symbol \in DOMAIN symbolIndex :
       MapHas(cache, symbolIndex[symbol]) /\ ~cache[symbolIndex[symbol]].isStatic
  /\ \E a \in DOMAIN cache :
       /\ cache[a].name = "Unknown Token"
       /\ \A symbol \in DOMAIN symbolIndex : symbolIndex[symbol] # a

\* C33 as claimed. Symbol index agrees with the records: in every reachable
\* state, if the symbol index maps symbol S to address A then the cached
\* record at A has a symbol whose uppercase form is S, also after a dynamic
\* record at A has been refreshed with a different symbol or a second dynamic
\* address has claimed S.
C33_IndexAgreesWithRecords_AsClaimed ==
  \A S \in DOMAIN symbolIndex :
    LET A == symbolIndex[S]
    IN  MapHas(cache, A) /\ toUpperCase(cache[A].symbol) = S

\* The strings callers may pass for an indexed symbol whose record is dynamic
\* and has expired.
ExpiredSymbols ==
  {s \in Strings :
     /\ MapHas(symbolIndex, toUpperCase(s))
     /\ MapHas(cache, symbolIndex[toUpperCase(s)])
     /\ ~cache[symbolIndex[toUpperCase(s)]].isStatic
     /\ isExpired(cache[symbolIndex[toUpperCase(s)]])}

\* C34 as claimed. Symbol resolution ignores expiry: for a symbol whose indexed
\* dynamic record is expired, resolveSymbol and resolveSymbolAsync still return
\* the indexed address and resolveSymbolAsync makes no remote call, while
\* getTokenInfo for the same symbol returns absent and getTokenBySymbol
\* performs a re-fetch.
C34_ResolutionIgnoresExpiry_AsClaimed ==
  \A s \in ExpiredSymbols :
    /\ resolveSymbol(s) = Ok(symbolIndex[toUpperCase(s)])
    /\ resolveSymbolAsyncBegin(s)
         = Done("resolveSymbolAsync", s, Ok(symbolIndex[toUpperCase(s)]), <<>>)
    /\ getTokenInfo(s) = Undefined
    /\ getTokenBySymbolBegin("getTokenBySymbol", s)
         = Await("getTokenBySymbol", s, "fetchVerifiedTokenBySymbol",
                 <<"fetchVerifiedTokenBySymbol">>)

\* The dynamic record a resumed call writes for a remote token.
InsertedRecord(token) ==
  [toCachedToken(token, FALSE) EXCEPT !.address = normalizeAddress(token.address)]

\* C35. Clear does not cancel in-flight fetches: when clearDynamicCache runs
\* while a call is suspended on its remote or on-chain call, the cache is the
\* static set right after the clear and the call stays suspended; when a
\* suspended getTokenByAddress, getTokenBySymbol or getDecimalsAsync resumes
\* with an answer for a non-static address, it inserts its dynamic record,
\* cleared in between or not; no step changes a static record or a static
\* symbol mapping.
C35_ClearKeepsInFlight ==
  [][/\ (/\ \E t \in Tasks : tasks[t].pc # "idle"
         /\ UNCHANGED <<returned, calls, now, provider>>
         /\ clearDynamicCache)
          => /\ getAllCached' = StaticRecords
             /\ DOMAIN cache' = StaticAddresses
             /\ tasks' = tasks
     /\ \A t \in Tasks, token \in RemoteTokens :
          (/\ returned'.seq # returned.seq
           /\ returned'.task = t
           /\ normalizeAddress(token.address) \notin StaticAddresses
           /\ \/ fetchTokenByAddressResolves(t, token)
              \/ fetchVerifiedTokenBySymbolResolves(t, token))
            => /\ MapHas(cache', normalizeAddress(token.address))
               /\ cache'[normalizeAddress(token.address)] = InsertedRecord(token)
     /\ \A t \in Tasks, decimals \in OnChainDecimals :
          (/\ returned'.seq # returned.seq
           /\ returned'.task = t
           /\ ~MapHas(cache, normalizeAddress(tasks[t].arg))
           /\ decimalsResolves(t, decimals))
            => /\ MapHas(cache', normalizeAddress(tasks[t].arg))
               /\ ~cache'[normalizeAddress(tasks[t].arg)].isStatic
               /\ cache'[normalizeAddress(tasks[t].arg)].decimals = decimals
     /\ \A r \in StaticRecords :
          /\ cache[r.address] = r /\ cache'[r.address] = r
          /\ symbolIndex[toUpperCase(r.symbol)] = r.address
          /\ symbolIndex'[toUpperCase(r.symbol)] = r.address]_vars

\* A call has completed with a dynamic record that is not expired, the cache
\* is the static set all the same, and another call is still suspended: the
\* clear ran while that call was in flight.
C35_Witness ==
  /\ returned.seq = 1
  /\ IsOk(returned.result)
  /\ returned.op = "getTokenByAddress"
  /\ ~returned.result[2].isStatic
  /\ ~isExpired(returned.result[2])
  /\ DOMAIN cache = StaticAddresses
  /\ \E t \in Tasks : tasks[t].pc \in {"fetchTokenByAddress", "fetchVerifiedTokenBySymbol"}

C37_CompleteUnstakeWhenReady ==
  /\ [][\A userInfo \in UserStakingInfos :
          (/\ tool.name = "starknet_complete_unstake"
           /\ getUserStakingInfoResolves(userInfo)) =>
            /\ unbondingStatus(userInfo) = "ready" <=> tool'.pc = "unstakeToCalls"
            /\ unbondingStatus(userInfo) = "none" <=>
                 (tool'.pc = "done" /\ tool'.result[2] = "NoActiveUnstakeRequest")
            /\ unbondingStatus(userInfo) = "cooldown" <=>
                 (tool'.pc = "done" /\ tool'.result[2] = "CooldownNotComplete")
            /\ (userInfo.unpoolAmount = 0) =>
                 tool'.result[2] = "NoActiveUnstakeRequest"
            /\ (userInfo.unpoolAmount # 0 /\ userInfo.unpoolTime > now) =>
                 tool'.result[2] = "CooldownNotComplete"
            /\ tool'.pc = "done" => tool'.trace = tool.trace]_vars
  /\ [](tool.name = "starknet_complete_unstake" =>
          /\ (ToolCalls \cap {"unstakeToCalls", "execute", "waitForTransaction"} # {}) =>
               unbondingStatus(tool.userInfo) = "ready"
          /\ (tool.pc = "done" /\ IsThrow(tool.result)
                /\ tool.result[2] \in {"NoActiveUnstakeRequest", "CooldownNotComplete"}) =>
               ToolCalls \cap {"unstakeToCalls", "execute", "waitForTransaction"} = {}
          /\ (tool.pc = "done" /\ IsOk(tool.result)) =>
               {"unstakeToCalls", "execute", "waitForTransaction"} \subseteq ToolCalls)

\* C37 witness: an unstake whose cooldown ends at this very millisecond was
\* completed, its transaction submitted and confirmed.
C37_Witness ==
  /\ tool.name = "starknet_complete_unstake"
  /\ tool.pc = "done"
  /\ IsOk(tool.result)
  /\ tool.userInfo.unpoolAmount > 0
  /\ tool.userInfo.unpoolTime = now
  /\ "execute" \in ToolCalls

\* The modelled tools that submit a transaction.
StateChangingTools ==
  {"starknet_transfer", "starknet_swap", "starknet_initiate_unstake",
   "starknet_complete_unstake"}

\* The transaction of the request was submitted and waitForTransaction was
\* called after that.
SubmittedAndAwaited ==
  \E i, j \in 1..Len(tool.trace) :
    /\ i < j
    /\ tool.trace[i] \in {"execute", "executeSwap"}
    /\ tool.trace[j] = "waitForTransaction"

\* C38 as claimed. Tool-call errors are contained: for every tool name and
\* every failure raised while a tool call is handled (unknown tool, unknown
\* token, collaborator error, guard failure) the handler returns a response
\* with isError = true that carries the tool name and a message, and a
\* state-changing tool returns success only after its transaction was
\* submitted and waitForTransaction completed.
C38_ErrorsContained_AsClaimed ==
  (tool.pc = "done" /\ tool.name \in ServerTools \cup UnknownTools) =>
    /\ tool.result # Pending
    /\ IsThrow(tool.result) =>
         /\ callToolResponse(tool).isError
         /\ callToolResponse(tool).tool = tool.name
         /\ callToolResponse(tool).message = tool.result[2]
    /\ (IsOk(tool.result) /\ tool.name \in StateChangingTools) =>
         /\ ~callToolResponse(tool).isError
         /\ SubmittedAndAwaited
         /\ tool.trace[Len(tool.trace)] \in {"waitForTransaction", "decimals"}

\* C39 as claimed. parseAmount and formatAmount round-trip: for every raw
\* amount a >= 0 and every decimals d, parsing the string formatAmount(a, d)
\* with d decimals yields a again; and parseAmount truncates, and does not
\* round, the fractional digits beyond d.
C39_RoundTrip_AsClaimed ==
  (tool.name \in {"starknet_transfer", "starknet_swap"} /\ "decimals" \in ToolCalls
     /\ tool.pc \notin {"parseAmount", "done"}) =>
    /\ \A a \in RawAmounts :
         tool.amount = formatAmount(a, tool.decimals) => tool.amountWei = a
    /\ tool.amount = <<"1", ".", "2", "3", "9">> =>
         tool.amountWei = (1239 \div Pow10(3 - tool.decimals))

====
